---- MODULE Spec2Model ----
(***************************************************************************)
(* A model of pdform's field model and form filler.                        *)
(*                                                                         *)
(* Text (Python str, PDF names and strings) is a sequence of one-character *)
(* strings, so that prefixing, dot-joining and comparison are computed.    *)
(* A PDF object is a record [ty, s]; ty = "absent" stands for a key that   *)
(* is not in the dictionary.  A Python value is a record [ty, s] whose s   *)
(* is what str(value) returns.                                             *)
(***************************************************************************)
EXTENDS Integers, Sequences, FiniteSets, TLC

VARIABLES
    nodes,      \* the document's field/annotation dictionaries, by object id
    pages,      \* the document's pages: annotation list and stamped content
    call,       \* the last operation: what was called, with what, how it ended
    pre,        \* nodes as they were when the last operation was called
    prePages,   \* pages as they were when the last operation was called
    acroForm,   \* pdf.Root.AcroForm: its /DA and the names of its /DR /Font
    tft,        \* progress of a checkbox through the assignments True, False, True
    job         \* the text a caller lays out, with its rectangle, font and options

vars == <<nodes, pages, call, pre, prePages, acroForm, tft, job>>

----------------------------------------------------------------------------
(* Bounds of the model *)

MaxKids == 2        \* buttons in the radio group of the radio documents
MaxDepth == 3       \* length of the Parent chain in the naming documents
MaxStamps == 2      \* fill_form is not called on pages with this many stamps
MaxLen == 5         \* characters of the text that is wrapped and laid out

----------------------------------------------------------------------------
(* PDF objects and Python values *)

Absent == [ty |-> "absent", s |-> <<>>]
NameObj(s) == [ty |-> "Name", s |-> s]
StringObj(s) == [ty |-> "String", s |-> s]

Py(ty, s) == [ty |-> ty, s |-> s]
PyTrue == Py("bool", <<"T", "r", "u", "e">>)
PyFalse == Py("bool", <<"F", "a", "l", "s", "e">>)
PyNone == Py("NoneType", <<"N", "o", "n", "e">>)

Off == <<"/", "O", "f", "f">>
StA == <<"/", "A">>
StB == <<"/", "B">>
StC == <<"/", "C">>

NoParent == 0

\* FieldFlags bits
Radio == 32768
Pushbutton == 65536
Multiline == 4096
Combo == 131072
MultiSelect == 2097152

\* `flag in flags` of an IntFlag
HasFlag(flags, flag) == (flags \div flag) % 2 = 1

\* FieldFlags.lookup applied to the raw /Ff; -1 stands for a missing /Ff
NoFf == -1
FieldFlagsLookup(value) == IF value = NoFf THEN 0 ELSE value

----------------------------------------------------------------------------
(* Inheritance *)

RECURSIVE get_inheritable_FT(_, _)
get_inheritable_FT(ns, n) ==
    IF ns[n].FT # "absent" THEN ns[n].FT
    ELSE IF ns[n].Parent # NoParent THEN get_inheritable_FT(ns, ns[n].Parent)
    ELSE "absent"

RECURSIVE inheritable_Ff(_, _)
inheritable_Ff(ns, n) ==
    IF ns[n].Ff # NoFf THEN ns[n].Ff
    ELSE IF ns[n].Parent # NoParent THEN inheritable_Ff(ns, ns[n].Parent)
    ELSE NoFf

field_flags(ns, n) == FieldFlagsLookup(inheritable_Ff(ns, n))

----------------------------------------------------------------------------
(* Field.input_type *)

\* a derivation that tests Pushbutton before Radio on a button
input_type_of_PushbuttonFirst(field_type, flags) ==
    IF field_type = "Sig" THEN "signature"
    ELSE IF field_type = "Btn" THEN
        IF HasFlag(flags, Pushbutton) THEN "button"
        ELSE IF HasFlag(flags, Radio) THEN "radio"
        ELSE "checkbox"
    ELSE IF field_type = "Ch" THEN
        IF HasFlag(flags, Combo) THEN "combo" ELSE "select"
    ELSE IF field_type = "Tx" THEN
        IF HasFlag(flags, Pushbutton) THEN "password"
        ELSE IF HasFlag(flags, Multiline) THEN "textarea"
        ELSE "text"
    ELSE "None"

\* lines 105-132
input_type_of(field_type, flags) ==
    IF field_type = "Sig" THEN "signature"
    ELSE IF field_type = "Btn" THEN
        IF HasFlag(flags, Radio) THEN "radio"
        ELSE IF HasFlag(flags, Pushbutton) THEN "button"
        ELSE "checkbox"
    ELSE IF field_type = "Ch" THEN
        IF HasFlag(flags, Combo) THEN "combo" ELSE "select"
    ELSE IF field_type = "Tx" THEN
        IF HasFlag(flags, Pushbutton) THEN "password"
        ELSE IF HasFlag(flags, Multiline) THEN "textarea"
        ELSE "text"
    ELSE "None"

input_type(ns, n) == input_type_of(get_inheritable_FT(ns, n), field_flags(ns, n))

----------------------------------------------------------------------------
(* Field.get_qualified_field_name: a Python str, or None *)

Dot == <<".">>

RECURSIVE get_qualified_field_name(_, _)
get_qualified_field_name(ns, n) ==
    IF ns[n].T = <<>> /\ ns[n].Parent # NoParent
        THEN get_qualified_field_name(ns, ns[n].Parent)
    ELSE IF ns[n].T = <<>> THEN PyNone
    ELSE IF ns[n].Parent # NoParent
        THEN Py("str", get_qualified_field_name(ns, ns[n].Parent).s \o Dot \o ns[n].T)
    ELSE Py("str", ns[n].T)

----------------------------------------------------------------------------
(* The state a call works on: the dictionaries, the pages, the exception   *)
(* the call ended with ("none" when it returned) and whether it warned.    *)

World(ns, ps) == [nodes |-> ns, pages |-> ps, err |-> "none", warned |-> FALSE]
Raise(w, e) == [w EXCEPT !.err = e]

\* Wrapper.__new__(cls, pdf, raw, *args, **kwargs), called with the
\* positional arguments args: both pdf and raw are required
Wrapper_new(args) == IF Len(args) < 2 THEN "TypeError" ELSE "none"

----------------------------------------------------------------------------
(* Field._set_value_radiogroup *)

\* lines 218-222: anything but a Name becomes Name('/' + str(value)),
\* the slash added only when the text does not start with one
RadioCoerce(value) ==
    IF value.ty = "Name" THEN value.s
    ELSE IF value.s[1] # "/" THEN <<"/">> \o value.s
    ELSE value.s

\* a loop body that selects the matching button and resets nothing
RadioKid_NoReset(kid, value) ==
    IF value \in kid.states \ {Off} THEN [kid EXCEPT !.AS = NameObj(value)]
    ELSE kid

\* lines 231-236: one button of the group
RadioKid(kid, value) ==
    LET states == kid.states \ {Off} IN
    IF value \in states THEN [kid EXCEPT !.AS = NameObj(value)]
    ELSE IF kid.AS.ty # "absent" THEN [kid EXCEPT !.AS = NameObj(Off)]
    ELSE kid

\* lines 229-236: the loop over group.Kids, from the i-th kid on
RECURSIVE RadioKids(_, _, _, _)
RadioKids(ns, kids, i, value) ==
    IF i > Len(kids) THEN ns
    ELSE RadioKids([ns EXCEPT ![kids[i]] = RadioKid(ns[kids[i]], value)],
                   kids, i + 1, value)

\* a group assignment that forgets line 238, the group's V
RadioGroupSet_NoValue(w, g, value) ==
    [w EXCEPT !.nodes = RadioKids(w.nodes, w.nodes[g].Kids, 1, value)]

\* a group assignment that writes V only to a group that has none
RadioGroupSet_FirstValue(w, g, value) ==
    LET ns == RadioKids(w.nodes, w.nodes[g].Kids, 1, value) IN
    IF w.nodes[g].V.ty # "absent" THEN [w EXCEPT !.nodes = ns]
    ELSE [w EXCEPT !.nodes = [ns EXCEPT ![g].V = NameObj(value)]]

\* lines 229-238, for the group dictionary g
RadioGroupSet(w, g, value) ==
    LET ns == RadioKids(w.nodes, w.nodes[g].Kids, 1, value) IN
    [w EXCEPT !.nodes = [ns EXCEPT ![g].V = NameObj(value)]]

set_value_radiogroup(w, n, value) ==
    LET v == RadioCoerce(value) IN
    IF value.ty # "Name" /\ value.s = <<>> THEN Raise(w, "IndexError")   \* value[0]
    ELSE IF w.nodes[n].Kids = <<>> THEN
        \* group = Field(self.raw.Parent)
        IF Wrapper_new(<<w.nodes[n].Parent>>) # "none"
            THEN Raise(w, Wrapper_new(<<w.nodes[n].Parent>>))
        ELSE IF input_type(w.nodes, w.nodes[n].Parent) # "radio"
            THEN Raise(w, "RuntimeError")
        ELSE RadioGroupSet(w, w.nodes[n].Parent, v)
    ELSE RadioGroupSet(w, n, v)

----------------------------------------------------------------------------
(* Field._set_value_checkbox *)

\* `value in states`: the keys are str; a str or a Name equal to a key is in
\* the set, nothing else is
PyIn(value, states) == value.ty \in {"str", "Name"} /\ value.s \in states

\* line 243
IsLiteralState(value, states) ==
    value.ty \in {"str", "bytes", "Name"} /\ PyIn(value, states)

\* states.pop(): the element a set of str gives up first depends on the
\* hashes; order is the order of this run, a sequence of all state names
Pop(states, order) ==
    LET i == CHOOSE i \in 1..Len(order) :
                 order[i] \in states /\ \A j \in 1..(i - 1) : order[j] \notin states
    IN order[i]

\* a write that forgets line 245 / 256, the appearance selector
CheckboxWrite_ValueOnly(w, n, state) ==
    [w EXCEPT !.nodes[n].V = NameObj(state)]

\* a write of the appearance state that leaves the value as it was
CheckboxWrite_AppearanceOnly(w, n, state) ==
    [w EXCEPT !.nodes[n].AS = NameObj(state)]

\* lines 244-245, 255-256: V and AS are written together
CheckboxWrite(w, n, state) ==
    [w EXCEPT !.nodes[n].V = NameObj(state), !.nodes[n].AS = NameObj(state)]

\* a setter that takes any other value by its truth, never refusing one
set_value_checkbox_Truthy(w, n, value, order) ==
    LET states == w.nodes[n].states IN
    IF ~w.nodes[n].hasAP THEN Raise(w, "AttributeError")
    ELSE IF IsLiteralState(value, states) THEN CheckboxWrite(w, n, value.s)
    ELSE IF states \ {Off} = {} THEN Raise(w, "KeyError")
    ELSE IF value \in {PyFalse, PyNone} THEN CheckboxWrite(w, n, Off)
    ELSE CheckboxWrite(w, n, Pop(states \ {Off}, order))

\* lines 240-259
set_value_checkbox(w, n, value, order) ==
    LET states == w.nodes[n].states IN
    IF ~w.nodes[n].hasAP THEN Raise(w, "AttributeError")     \* self.raw.AP
    ELSE IF IsLiteralState(value, states) THEN CheckboxWrite(w, n, value.s)
    ELSE IF states \ {Off} = {} THEN Raise(w, "KeyError")
    ELSE LET on == Pop(states \ {Off}, order) IN
         IF value = PyTrue THEN CheckboxWrite(w, n, on)
         ELSE IF value = PyFalse \/ value = PyNone THEN CheckboxWrite(w, n, Off)
         ELSE Raise(w, "ValueError")

----------------------------------------------------------------------------
(* Rect *)

Width(rect) == rect[3] - rect[1]
Height(rect) == rect[4] - rect[2]
\* a bounding box that stays where the rectangle is
to_bbox_Untranslated(rect) == rect

\* lines 38-44
to_bbox(rect) == <<0, 0, Width(rect), Height(rect)>>

----------------------------------------------------------------------------
(* Font: widths of characters and strings, word wrap *)

\* ord(char) for the characters of the texts
Space == " "
Newline == "\n"
Ord(char) ==
    CASE char = Newline -> 10
      [] char = Space -> 32
      [] char = "a" -> 97
      [] char = "b" -> 98

\* a scale of None, and an entry the font descriptor does not have
NoScale == -1
NoEntry == -1
glyph_space_ratio == 1000

\* lines 72-73: Widths[char_code]; Python counts a negative index from the
\* end of the list and raises IndexError below -len
WidthsIndexError(font, char) == Ord(char) - font.FirstChar < 0 - Len(font.Widths)
\* lines 72-83: the width in glyph space
GlyphWidth(font, char) ==
    LET char_code == Ord(char) - font.FirstChar IN
    IF Len(font.Widths) > char_code THEN
        IF char_code >= 0 THEN font.Widths[char_code + 1]
        ELSE font.Widths[Len(font.Widths) + char_code + 1]
    ELSE IF font.MissingWidth # NoEntry THEN font.MissingWidth
    ELSE IF font.AvgWidth # NoEntry THEN font.AvgWidth
    ELSE IF font.MaxWidth # NoEntry THEN font.MaxWidth
    ELSE 0

\* lines 62-93, the error of a call: "none" when it returns
get_char_width_err(font, char, scale) ==
    IF WidthsIndexError(font, char) THEN "IndexError"
    ELSE IF scale # NoScale /\ font.Subtype = "Type3" THEN "NotImplementedError"
    ELSE "none"

\* lines 62-93, the value of a call that returns; the widths and scales of
\* the fonts here keep width / 1000 * scale a whole number
get_char_width(font, char, scale) ==
    IF scale = NoScale THEN GlyphWidth(font, char)
    ELSE (GlyphWidth(font, char) * scale) \div glyph_space_ratio

\* lines 107-110
RECURSIVE get_string_width(_, _, _, _, _)
get_string_width(font, string, scale, char_spacing, word_spacing) ==
    IF string = <<>> THEN 0
    ELSE get_char_width(font, Head(string), scale)
         + (IF Head(string) = Space THEN word_spacing ELSE char_spacing)
         + get_string_width(font, Tail(string), scale, char_spacing, word_spacing)

\* str.splitlines(): the lines of the string without their line ends; a
\* line end at the very end starts no further line
RECURSIVE splitlines_from(_, _, _)
splitlines_from(string, i, line) ==
    IF i > Len(string) THEN (IF line = <<>> THEN <<>> ELSE <<line>>)
    ELSE IF string[i] = Newline THEN <<line>> \o splitlines_from(string, i + 1, <<>>)
    ELSE splitlines_from(string, i + 1, Append(line, string[i]))
\* a split that drops the empty lines
splitlines_DropBlank(string) ==
    SelectSeq(splitlines_from(string, 1, <<>>), LAMBDA line : line # <<>>)

splitlines(string) == splitlines_from(string, 1, <<>>)

\* str.split(): the runs of characters between whitespace
RECURSIVE split_from(_, _, _)
split_from(string, i, word) ==
    IF i > Len(string) THEN (IF word = <<>> THEN <<>> ELSE <<word>>)
    ELSE IF string[i] \in {Space, Newline}
        THEN (IF word = <<>> THEN <<>> ELSE <<word>>) \o split_from(string, i + 1, <<>>)
    ELSE split_from(string, i + 1, Append(word, string[i]))
split(string) == split_from(string, 1, <<>>)

\* ' '.join(words)
RECURSIVE join(_)
join(words) ==
    IF words = <<>> THEN <<>>
    ELSE IF Len(words) = 1 THEN words[1]
    ELSE words[1] \o <<Space>> \o join(Tail(words))

\* a loop whose running width leaves out the space after a word
RECURSIVE WrapWords_NoSpacing(_, _, _, _, _, _, _, _, _, _)
WrapWords_NoSpacing(font, words, i, lines, current_width, current_line, width, scale, char_spacing, word_spacing) ==
    IF i > Len(words)
        THEN (IF current_line # <<>> THEN Append(lines, join(current_line)) ELSE lines)
    ELSE LET Place(word_len) ==
                 IF current_width + word_len > width
                 THEN WrapWords_NoSpacing(font, words, i + 1,
                          Append(lines, join(current_line)), word_len, <<words[i]>>,
                          width, scale, char_spacing, word_spacing)
                 ELSE WrapWords_NoSpacing(font, words, i + 1, lines,
                          current_width + word_len, Append(current_line, words[i]),
                          width, scale, char_spacing, word_spacing)
         IN  Place(get_string_width(font, words[i], scale, char_spacing, 0))

\* lines 135-148: the loop over the words of one paragraph from the i-th on
RECURSIVE WrapWords(_, _, _, _, _, _, _, _, _, _)
WrapWords(font, words, i, lines, current_width, current_line, width, scale, char_spacing, word_spacing) ==
    IF i > Len(words)
        THEN (IF current_line # <<>> THEN Append(lines, join(current_line)) ELSE lines)
    ELSE LET Place(word_len) ==
                 IF current_width + word_len > width
                 THEN WrapWords(font, words, i + 1, Append(lines, join(current_line)),
                                word_len + word_spacing, <<words[i]>>, width, scale,
                                char_spacing, word_spacing)
                 ELSE WrapWords(font, words, i + 1, lines,
                                current_width + word_len + word_spacing,
                                Append(current_line, words[i]), width, scale,
                                char_spacing, word_spacing)
         IN  Place(get_string_width(font, words[i], scale, char_spacing, 0))

\* the first error of the calls of get_char_width for these characters
RECURSIVE FirstError(_, _, _)
FirstError(font, chars, scale) ==
    IF chars = <<>> THEN "none"
    ELSE IF get_char_width_err(font, Head(chars), scale) # "none"
        THEN get_char_width_err(font, Head(chars), scale)
    ELSE FirstError(font, Tail(chars), scale)

\* lines 112-150: [err, paragraphs]
word_wrap(font, string, width, scale, char_spacing, word_spacing) ==
    LET \* line 129, and the characters of the words in their order
        called == <<Space>> \o SelectSeq(string, LAMBDA c : c \notin {Space, Newline})
        Wrapped(paragraphs, spacing) ==
            [p \in 1..Len(paragraphs) |->
                WrapWords(font, split(paragraphs[p]), 1, <<>>, 0, <<>>, width, scale,
                          char_spacing, spacing)]
        Wrap(err) ==
            IF err # "none" THEN [err |-> err, paragraphs |-> <<>>]
            ELSE [err |-> "none",
                  paragraphs |-> Wrapped(splitlines(string),
                      word_spacing + get_char_width(font, Space, scale))]
    IN  Wrap(FirstError(font, called, scale))

----------------------------------------------------------------------------
(* ContentStream and layout_text_multiline *)

\* a stream under construction: its operations, and the error of an undo
\* of nothing (list.pop() of an empty list)
ContentStream == [err |-> "none", ops |-> <<>>]
Operation(operator, operands) == [op |-> operator, args |-> operands]
append(stream, operation) == [stream EXCEPT !.ops = Append(@, operation)]
undo(stream) ==
    IF stream.ops = <<>> THEN [stream EXCEPT !.err = "IndexError"]
    ELSE [stream EXCEPT !.ops = SubSeq(@, 1, Len(@) - 1)]
move_text(stream, tx, ty) == append(stream, Operation("Td", <<tx, ty>>))
paint_text(stream, string) == append(stream, Operation("Tj", <<string>>))

\* Operands are numbers or tuples of operands
Number(n) == [ty |-> "int", v |-> n]
Tuple(operands) == [ty |-> "tuple", v |-> operands]
\* lines 110-111: Operator.__call__(*operands)
Operator_call(operator, operands) == Operation(operator, operands)
\* lines 177-180: operation(operator, *operands) calls the operator with the
\* tuple of the operands as its one argument
operation(stream, operator, operands) ==
    append(stream, Operator_call(operator, <<Tuple(operands)>>))
\* lines 274-280 and 298-306: the shortcut methods push_stack() and move(x, y)
push_stack(stream) == append(stream, Operator_call("q", <<>>))
move(stream, x, y) == append(stream, Operator_call("m", <<Number(x), Number(y)>>))

\* str() of a number, of a tuple (the repr of its elements between
\* brackets, one element with a comma after it) and of an operand
DigitChars == <<"0", "1", "2", "3", "4", "5", "6", "7", "8", "9">>
RECURSIVE str_int(_)
str_int(n) ==
    IF n < 0 THEN <<"-">> \o str_int(0 - n)
    ELSE IF n < 10 THEN <<DigitChars[n + 1]>>
    ELSE str_int(n \div 10) \o <<DigitChars[(n % 10) + 1]>>
RECURSIVE str_operand(_)
RECURSIVE str_elements(_, _)
str_elements(operands, separator) ==
    IF operands = <<>> THEN <<>>
    ELSE str_operand(Head(operands))
         \o (IF Tail(operands) = <<>> THEN <<>>
             ELSE separator \o str_elements(Tail(operands), separator))
str_operand(operand) ==
    IF operand.ty = "int" THEN str_int(operand.v)
    ELSE <<"(">> \o str_elements(operand.v, <<",", Space>>)
         \o (IF Len(operand.v) = 1 THEN <<",">> ELSE <<>>) \o <<")">>
\* lines 138-143: Operation.__str__, the operator as a word of one element
str_Operation(op) ==
    IF op.args = <<>> THEN <<op.op>>
    ELSE str_elements(op.args, <<Space>>) \o <<Space, op.op>>
\* line 207: ContentStream.__str__
RECURSIVE str_ContentStream(_)
str_ContentStream(ops) ==
    IF ops = <<>> THEN <<>>
    ELSE str_Operation(Head(ops))
         \o (IF Tail(ops) = <<>> THEN <<>> ELSE <<Space>> \o str_ContentStream(Tail(ops)))

\* a padding is a number, <<p>> here, or a tuple of two, <<x, y>>
pad_x(padding) == padding[1]
pad_y(padding) == padding[Len(padding)]

\* font.leading: FontDescriptor.Leading or 0
NoLeading == -1
font_leading(font) == IF font.Leading = NoEntry THEN 0 ELSE font.Leading

\* lines 100-104: the lines of one paragraph from the i-th on
RECURSIVE PaintLines(_, _, _, _, _)
PaintLines(stream, paragraph, i, leading, font_scale) ==
    IF i > Len(paragraph) THEN stream
    ELSE PaintLines(move_text(paint_text(stream, paragraph[i]),
                              0, 0 - leading - font_scale),
                    paragraph, i + 1, leading, font_scale)

\* lines 99-107: the paragraphs from the p-th on
RECURSIVE PaintParagraphs(_, _, _, _, _, _)
PaintParagraphs(stream, paragraphs, p, leading, font_scale, paragraph_spacing) ==
    IF p > Len(paragraphs) THEN stream
    ELSE PaintParagraphs(
            move_text(undo(PaintLines(stream, paragraphs[p], 1, leading, font_scale)),
                      0, (0 - leading - font_scale) * paragraph_spacing),
            paragraphs, p + 1, leading, font_scale, paragraph_spacing)

\* lines 86-96: the operations before the first cursor position
Setup(rect, font, o) ==
    (IF o.include_clip_rect
        THEN <<Operation("re", <<rect[1], rect[2], Width(rect), Height(rect)>>),
               Operation("W", <<>>)>>
        ELSE <<>>)
    \o (IF o.include_set_font
            THEN <<Operation("Tf", <<font.name, o.font_scale>>)>> ELSE <<>>)
    \o (IF o.include_set_spacing /\ o.word_spacing # 0
            THEN <<Operation("Tw", <<o.word_spacing>>)>> ELSE <<>>)
    \o (IF o.include_set_spacing /\ o.char_spacing # 0
            THEN <<Operation("Tc", <<o.char_spacing>>)>> ELSE <<>>)

\* utils/text.py lines 30-48; o holds the keyword arguments. [err, ops]
layout_text_line(text, rect, font, o) ==
    paint_text(move_text([ContentStream EXCEPT !.ops = Setup(rect, font, o)],
                         rect[1] + pad_x(o.padding),
                         rect[4] - pad_y(o.padding) - o.font_scale),
               text)

\* a layout that leaves the advance after the last paragraph in the stream
layout_text_multiline_NoFinalUndo(text, rect, font, o) ==
    LET leading == IF o.leading = NoLeading THEN font_leading(font) ELSE o.leading
        start == move_text([ContentStream EXCEPT !.ops = Setup(rect, font, o)],
                           rect[1] + pad_x(o.padding),
                           rect[4] - pad_y(o.padding) - o.font_scale)
        Paint(wrapped) ==
            IF wrapped.err # "none" THEN [ContentStream EXCEPT !.err = wrapped.err]
            ELSE PaintParagraphs(start, wrapped.paragraphs, 1, leading,
                                 o.font_scale, o.paragraph_spacing)
    IN  Paint(word_wrap(font, text, Width(rect) - pad_x(o.padding) * 2, o.font_scale,
                        o.char_spacing, o.word_spacing))

\* lines 79-110; o holds the keyword arguments. [err, ops]
layout_text_multiline(text, rect, font, o) ==
    LET leading == IF o.leading = NoLeading THEN font_leading(font) ELSE o.leading
        start == move_text([ContentStream EXCEPT !.ops = Setup(rect, font, o)],
                           rect[1] + pad_x(o.padding),
                           rect[4] - pad_y(o.padding) - o.font_scale)
        Paint(wrapped) ==
            IF wrapped.err # "none" THEN [ContentStream EXCEPT !.err = wrapped.err]
            ELSE undo(PaintParagraphs(start, wrapped.paragraphs, 1, leading,
                                      o.font_scale, o.paragraph_spacing))
    IN  Paint(word_wrap(font, text, Width(rect) - pad_x(o.padding) * 2, o.font_scale,
                        o.char_spacing, o.word_spacing))

----------------------------------------------------------------------------
(* layout_form_text: the font name and size of a default appearance string *)

Digits == {"0", "1", "2", "3", "4", "5", "6", "7", "8", "9"}
Whitespace == {" "}
IsPrintable(c) == c \notin Whitespace       \* [!-~]

\* the end of the longest stretch s[i..j] whose characters satisfy the class
\* (i - 1 when s[i] does not)
RECURSIVE DigitsEnd(_, _)
DigitsEnd(s, i) ==
    IF i <= Len(s) /\ s[i] \in Digits THEN DigitsEnd(s, i + 1) ELSE i - 1
RECURSIVE SpaceEnd(_, _)
SpaceEnd(s, i) ==
    IF i <= Len(s) /\ s[i] \in Whitespace THEN SpaceEnd(s, i + 1) ELSE i - 1
RECURSIVE PrintableEnd(_, _)
PrintableEnd(s, i) ==
    IF i <= Len(s) /\ IsPrintable(s[i]) THEN PrintableEnd(s, i + 1) ELSE i - 1

\* the size: \d+(?:\.\d+), from position i; the end of the match or 0
SizeEnd(s, i) ==
    LET l == DigitsEnd(s, i)
        m == DigitsEnd(s, l + 2)
    IN  IF l >= i /\ l + 1 <= Len(s) /\ s[l + 1] = "." /\ m >= l + 2 THEN m ELSE 0

\* (\/[!-~]+)\s+(\d+(?:\.\d+))\s*Tf matched with its first character at i
TfMatchAt(s, i) ==
    LET j == PrintableEnd(s, i + 1)
        k == SpaceEnd(s, j + 1)
        m == SizeEnd(s, k + 1)
        e == SpaceEnd(s, m + 1)
    IN  /\ s[i] = "/"
        /\ j >= i + 1
        /\ k >= j + 1
        /\ m > 0
        /\ e + 2 <= Len(s)
        /\ s[e + 1] = "T"
        /\ s[e + 2] = "f"

\* re.search: the leftmost match; [ok, font, size]
TfSearch(da) ==
    LET matches == {i \in 1..Len(da) : TfMatchAt(da, i)}
        Groups(i, j, k) ==
            [ok |-> TRUE, font |-> SubSeq(da, i, j),
             size |-> SubSeq(da, k + 1, SizeEnd(da, k + 1))]
        Sized(i, j) == Groups(i, j, SpaceEnd(da, j + 1))
        Match(i) == Sized(i, PrintableEnd(da, i + 1))
    IN  IF matches # {}
        THEN Match(CHOOSE i \in matches : \A h \in matches : i <= h)
        ELSE [ok |-> FALSE, font |-> <<>>, size |-> <<>>]

\* a form XObject: the stream FormXObject.new makes of the laid out text
NoStream == [bbox |-> <<>>, da |-> <<>>, text |-> <<>>, font |-> <<>>,
             size |-> <<>>, multiline |-> FALSE]

\* [err, xobject]
layout_form_text(acro, text, da, rect, multiline) ==
    LET Layout(match) ==
            IF ~match.ok THEN [err |-> "ValueError", xobject |-> NoStream]
            ELSE IF match.font \notin acro.fonts
                THEN [err |-> "RuntimeError", xobject |-> NoStream]
            ELSE IF rect = <<>>      \* field.rect is None: rect.to_bbox()
                THEN [err |-> "AttributeError", xobject |-> NoStream]
            ELSE [err |-> "none",
                  xobject |-> [bbox |-> to_bbox(rect), da |-> da, text |-> text,
                               font |-> match.font, size |-> match.size,
                               multiline |-> multiline]]
    IN  Layout(TfSearch(da))

----------------------------------------------------------------------------
(* Field._set_value_text and Field._set_value_choice *)

\* a lookup that reads the dictionary's own /DA and no ancestor's
get_inheritable_DA_OwnOnly(ns, n) == ns[n].DA

\* get_inheritable(self.raw, Name.DA); <<>> stands for None
RECURSIVE get_inheritable_DA(_, _)
get_inheritable_DA(ns, n) ==
    IF ns[n].DA # <<>> THEN ns[n].DA
    ELSE IF ns[n].Parent # NoParent THEN get_inheritable_DA(ns, ns[n].Parent)
    ELSE <<>>

\* lines 281-284: AP.N becomes the stream; a new AP has no other entry
SetAppearance(node, xobject) ==
    IF ~node.hasAP
        THEN [node EXCEPT !.hasAP = TRUE, !.N = xobject, !.states = {}, !.D = FALSE]
    ELSE [node EXCEPT !.N = xobject, !.states = {}]

\* a setter that writes V only together with the appearance
set_value_text_Atomic(w, n, value, acro) ==
    LET w1 == [w EXCEPT !.nodes[n].V = StringObj(value.s)]
        Appear(laid) ==
            IF laid.err # "none" THEN Raise(w, laid.err)
            ELSE [w1 EXCEPT !.nodes[n] = SetAppearance(w1.nodes[n], laid.xobject)]
        Lay(da) ==
            IF da = <<>> THEN Raise(w, "RuntimeError")
            ELSE Appear(layout_form_text(acro, value.s, da, w.nodes[n].Rect,
                            HasFlag(field_flags(w.nodes, n), Multiline)))
        Default(inherited) == Lay(IF inherited = <<>> THEN acro.DA ELSE inherited)
    IN  Default(get_inheritable_DA(w.nodes, n))

set_value_text(w, n, value, acro) ==
    LET \* lines 262-267
        w1 == [w EXCEPT !.nodes[n].V = StringObj(value.s)]
        \* lines 281-284
        Appear(laid) ==
            IF laid.err # "none" THEN Raise(w1, laid.err)
            ELSE [w1 EXCEPT !.nodes[n] = SetAppearance(w1.nodes[n], laid.xobject)]
        \* lines 276-280
        Lay(da) ==
            IF da = <<>> THEN Raise(w1, "RuntimeError")
            ELSE Appear(layout_form_text(acro, value.s, da, w.nodes[n].Rect,
                            HasFlag(field_flags(w.nodes, n), Multiline)))
        \* lines 272-274
        Default(inherited) == Lay(IF inherited = <<>> THEN acro.DA ELSE inherited)
    IN  Default(get_inheritable_DA(w.nodes, n))

\* a choice setter that writes the Combo flag before it looks at MultiSelect
set_value_choice_FlagFirst(w, n, value, acro) ==
    LET flags == field_flags(w.nodes, n)
        w1 == [w EXCEPT !.nodes[n].Ff = IF HasFlag(flags, Combo) THEN flags
                                        ELSE flags + Combo]
    IN  IF HasFlag(flags, MultiSelect) THEN Raise(w1, "NotImplementedError")
        ELSE set_value_text(w1, n, value, acro)

\* lines 311-316
set_value_choice(w, n, value, acro) ==
    LET flags == field_flags(w.nodes, n) IN
    IF HasFlag(flags, MultiSelect) THEN Raise(w, "NotImplementedError")
    ELSE set_value_text(
            [w EXCEPT !.nodes[n].Ff = IF HasFlag(flags, Combo) THEN flags
                                      ELSE flags + Combo],
            n, value, acro)

----------------------------------------------------------------------------
(* Field.value, the setter *)

\* a setter without the signature branch: the value goes the text way
set_value_SignatureAsText(w, n, value, order, acro) ==
    LET type == input_type(w.nodes, n) IN
    IF type = "radio" THEN set_value_radiogroup(w, n, value)
    ELSE IF type = "checkbox" THEN set_value_checkbox(w, n, value, order)
    ELSE IF type \in {"select", "combo"} THEN set_value_choice(w, n, value, acro)
    ELSE set_value_text(w, n, value, acro)

\* lines 197-215
set_value(w, n, value, order, acro) ==
    LET type == input_type(w.nodes, n) IN
    IF type = "radio" THEN set_value_radiogroup(w, n, value)
    ELSE IF type = "checkbox" THEN set_value_checkbox(w, n, value, order)
    ELSE IF type = "signature" THEN [w EXCEPT !.warned = TRUE]
    ELSE IF type \in {"select", "combo"} THEN set_value_choice(w, n, value, acro)
    ELSE set_value_text(w, n, value, acro)

----------------------------------------------------------------------------
(* iter_fields *)

\* the loop of lines 19-42 from the i-th annotation on; radios is the set of
\* this call. Nothing a yielded field's assignment changes is read here
\* (Subtype, Kids, Parent, T, FT, the Radio flag), so the generator's
\* output is computed at once.
RECURSIVE iter_fields_from(_, _, _, _)
iter_fields_from(ns, annots, i, radios) ==
    IF i > Len(annots) THEN <<>>
    ELSE
    LET annot == annots[i]
        name == get_qualified_field_name(ns, annot)
    IN
    IF ns[annot].Subtype # "Widget" THEN
        (IF ns[annot].Kids # <<>>
            THEN iter_fields_from(ns, ns[annot].Kids, 1, {}) ELSE <<>>)
        \o iter_fields_from(ns, annots, i + 1, radios)
    ELSE IF input_type(ns, annot) = "radio" THEN
        IF ns[annot].Kids # <<>>
            THEN <<annot>> \o iter_fields_from(ns, annots, i + 1, radios)
        ELSE IF name \in radios
            THEN iter_fields_from(ns, annots, i + 1, radios)
        ELSE <<ns[annot].Parent>>
             \o iter_fields_from(ns, annots, i + 1, radios \cup {name})
    ELSE IF ns[annot].Kids # <<>> THEN
        iter_fields_from(ns, ns[annot].Kids, 1, {})
        \o iter_fields_from(ns, annots, i + 1, radios)
    ELSE <<annot>> \o iter_fields_from(ns, annots, i + 1, radios)

iter_fields(ns, annots) == iter_fields_from(ns, annots, 1, {})

----------------------------------------------------------------------------
(* stamp *)

DataPrefix == <<"d", "a", "t", "a", ":">>
StartsWith(s, prefix) ==
    Len(s) >= Len(prefix) /\ SubSeq(s, 1, Len(prefix)) = prefix

\* The quotients of the fit are fractions <<numerator, denominator>> in
\* lowest terms with a positive denominator
RECURSIVE GCD(_, _)
GCD(a, b) == IF b = 0 THEN a ELSE GCD(b, a % b)
Abs(n) == IF n < 0 THEN 0 - n ELSE n
Q(n, d) ==
    LET g == GCD(Abs(n), Abs(d))
        sign == IF d < 0 THEN -1 ELSE 1
    IN  <<(sign * n) \div g, (sign * d) \div g>>
QInt(n) == <<n, 1>>
QAdd(a, b) == Q(a[1] * b[2] + b[1] * a[2], a[2] * b[2])
QSub(a, b) == Q(a[1] * b[2] - b[1] * a[2], a[2] * b[2])
QMul(a, b) == Q(a[1] * b[1], a[2] * b[2])
QDiv(a, b) == Q(a[1] * b[2], a[2] * b[1])
QLess(a, b) == a[1] * b[2] < b[1] * a[2]

\* Image.open(img).size of the image files: <<width, height>>
ImagePath == Py("str", <<"i", ".", "p", "n", "g">>)
ImageSmall == Py("str", <<"2", "0", "x", "1", "0">>)
ImageLarge == Py("str", <<"8", "0", "x", "4", "0">>)
ImageTall == Py("str", <<"3", "0", "x", "6", "0">>)
ImageNarrow == Py("str", <<"1", "0", "x", "1", "6">>)
ImageWide == Py("str", <<"6", "0", "x", "1", "0">>)
ImageFlat == Py("str", <<"3", "0", "x", "5">>)
Image_size(img) ==
    CASE img = ImageSmall -> <<20, 10>>
      [] img = ImageLarge -> <<80, 40>>
      [] img = ImageTall -> <<30, 60>>
      [] img = ImageNarrow -> <<10, 16>>
      [] img = ImageWide -> <<60, 10>>
      [] img = ImageFlat -> <<30, 5>>
      [] OTHER -> <<20, 10>>

\* lines 25-59: the scale factor and the margins of an image in a rect
Centred(size, rect) ==
    [scale_factor |-> QInt(1),
     margin_x |-> Q(Width(rect) - size[1], 2),
     margin_y |-> Q(Height(rect) - size[2], 2)]
\* a fit that centres an image of the rect's ratio that is too large as well
Fit_AlwaysCentred(size, rect) == Centred(size, rect)

Fit(size, rect) ==
    LET image_ratio == Q(size[2], size[1])
        target_ratio == Q(Height(rect), Width(rect))
        by_height == Q(Height(rect), size[2])
        by_width == Q(Width(rect), size[1])
    IN  IF QLess(target_ratio, image_ratio) THEN
            IF size[2] > Height(rect)
            THEN [scale_factor |-> by_height,
                  margin_x |-> QDiv(QSub(QInt(Width(rect)),
                                         QMul(QInt(size[1]), by_height)), QInt(2)),
                  margin_y |-> QInt(0)]
            ELSE Centred(size, rect)
        ELSE IF QLess(image_ratio, target_ratio) THEN
            IF size[1] > Width(rect)
            THEN [scale_factor |-> by_width,
                  margin_x |-> QInt(0),
                  margin_y |-> QDiv(QSub(QInt(Height(rect)),
                                         QMul(QInt(size[2]), by_width)), QInt(2))]
            ELSE Centred(size, rect)
        ELSE IF size[2] > Height(rect)
            THEN [scale_factor |-> by_height, margin_x |-> QInt(0),
                  margin_y |-> QInt(0)]
            ELSE Centred(size, rect)

\* lines 71-77: the image on the page, at its scale and place
Placed(img, rect, size, fit) ==
    [img |-> img.s, rect |-> rect, size |-> size,
     scale_factor |-> fit.scale_factor,
     margin_x |-> fit.margin_x, margin_y |-> fit.margin_y,
     x |-> QInt(rect[1]),
     y |-> QAdd(QInt(rect[2]), fit.margin_y)]

\* the image is stamped on page p in rect; a data: URL ends at line 20,
\* which reads the local `path` before anything was assigned to it; a
\* rect without a width ends at line 27
stamp(w, img, p, rect) ==
    IF img.ty = "str" /\ StartsWith(img.s, DataPrefix)
        THEN Raise(w, "UnboundLocalError")
    ELSE IF Width(rect) = 0 THEN Raise(w, "ZeroDivisionError")
    ELSE [w EXCEPT !.pages[p].stamps =
            Append(@, Placed(img, rect, Image_size(img),
                             Fit(Image_size(img), rect)))]

----------------------------------------------------------------------------
(* fill_form *)

\* bool(key) of a qualified name
Truthy(key) == key.ty = "str" /\ key.s # <<>>

RemoveAt(seq, i) == SubSeq(seq, 1, i - 1) \o SubSeq(seq, i + 1, Len(seq))

\* lines 74-75: del page.Annots[index] for the indices of to_delete, from
\* its k-th down to its first; the indices count from 0
RECURSIVE DeleteAnnots(_, _, _, _)
DeleteAnnots(w, p, to_delete, k) ==
    IF k = 0 THEN w
    ELSE IF to_delete[k] >= Len(w.pages[p].Annots) THEN Raise(w, "IndexError")
    ELSE DeleteAnnots([w EXCEPT !.pages[p].Annots = RemoveAt(@, to_delete[k] + 1)],
                      p, to_delete, k - 1)

\* lines 65-73: the body of the loop for one yielded annotation
FillField(w, p, annotation, data, order, acro) ==
    LET key == get_qualified_field_name(w.nodes, annotation) IN
    IF Truthy(key) /\ key.s \in DOMAIN data.fields /\ data.fields[key.s] # PyNone
    THEN IF get_inheritable_FT(w.nodes, annotation) = "Sig"
            THEN stamp(w, data.fields[key.s], p, w.nodes[annotation].Rect)
         ELSE set_value(w, annotation, data.fields[key.s], order, acro)
    ELSE w

IsStamped(w, annotation, data) ==
    LET key == get_qualified_field_name(w.nodes, annotation) IN
    /\ Truthy(key) /\ key.s \in DOMAIN data.fields /\ data.fields[key.s] # PyNone
    /\ get_inheritable_FT(w.nodes, annotation) = "Sig"

\* lines 64-75 from the i-th yielded annotation (index i - 1) on
RECURSIVE FillPageFrom(_, _, _, _, _, _, _, _)
FillPageFrom(w, p, fields, i, to_delete, data, order, acro) ==
    IF i > Len(fields) THEN DeleteAnnots(w, p, to_delete, Len(to_delete))
    ELSE LET Rest(w1) ==
                 IF w1.err # "none" THEN w1
                 ELSE FillPageFrom(w1, p, fields, i + 1,
                          IF IsStamped(w, fields[i], data)
                              THEN Append(to_delete, i - 1) ELSE to_delete,
                          data, order, acro)
         IN  Rest(FillField(w, p, fields[i], data, order, acro))

\* lines 59-75 from page p on
RECURSIVE FillPagesFrom(_, _, _, _, _)
FillPagesFrom(w, p, data, order, acro) ==
    IF p > Len(w.pages) THEN w
    ELSE IF ~w.pages[p].hasAnnots THEN FillPagesFrom(w, p + 1, data, order, acro)
    ELSE LET Rest(w1) ==
                 IF w1.err # "none" THEN w1
                 ELSE FillPagesFrom(w1, p + 1, data, order, acro)
         IN  Rest(FillPageFrom(w, p, iter_fields(w.nodes, w.pages[p].Annots), 1,
                               <<>>, data, order, acro))

\* lines 76-81 from the i-th entry of data['.stamps'] on
RECURSIVE FillStampsFrom(_, _, _)
FillStampsFrom(w, stamps, i) ==
    IF i > Len(stamps) THEN w
    ELSE IF stamps[i].img.s = <<>> \/ stamps[i].img = PyNone
        THEN FillStampsFrom(w, stamps, i + 1)
    ELSE IF stamps[i].page > Len(w.pages) THEN Raise(w, "IndexError")
    ELSE LET Rest(w1) ==
                 IF w1.err # "none" THEN w1 ELSE FillStampsFrom(w1, stamps, i + 1)
         IN  Rest(stamp(w, stamps[i].img, stamps[i].page, stamps[i].rect))

\* a fill that places the '.stamps' entries even after a field has failed
fill_form_StampsAnyway(w, data, order, acro) ==
    LET Stamped(w1) ==
            IF data.hasStamps
                THEN [FillStampsFrom([w1 EXCEPT !.err = "none"], data.stamps, 1)
                         EXCEPT !.err = w1.err]
            ELSE w1
    IN  Stamped(FillPagesFrom(w, 1, data, order, acro))

\* lines 45-81
fill_form(w, data, order, acro) ==
    LET Stamped(w1) ==
            IF w1.err # "none" THEN w1
            ELSE IF data.hasStamps THEN FillStampsFrom(w1, data.stamps, 1)
            ELSE w1
    IN  Stamped(FillPagesFrom(w, 1, data, order, acro))

----------------------------------------------------------------------------
(* Documents *)

Node(subtype, t, parent, kids, ft, ff) ==
    [Subtype |-> subtype, T |-> t, Parent |-> parent, Kids |-> kids,
     FT |-> ft, Ff |-> ff, V |-> Absent, AS |-> Absent,
     hasAP |-> FALSE, states |-> {}, N |-> NoStream, D |-> FALSE,
     DA |-> <<>>, Rect |-> <<>>]

\* a button widget with the appearance states of its /AP /N
Button(node, states, as) ==
    [node EXCEPT !.hasAP = TRUE, !.states = states, !.AS = as,
                 !.Rect = <<10, 10, 20, 20>>]

\* a widget with a rectangle, and a normal appearance stream when old is set
OldStream == [bbox |-> <<0, 0, 1, 1>>, da |-> <<>>, text |-> <<"o">>,
              font |-> <<"/", "H">>, size |-> <<"1", ".", "0">>, multiline |-> FALSE]
Widget(node, rect, old) ==
    IF old THEN [node EXCEPT !.Rect = rect, !.hasAP = TRUE, !.N = OldStream, !.D = TRUE]
    ELSE [node EXCEPT !.Rect = rect]

Helv == <<"/", "H">>
GoodDA == <<"/", "H", " ", "9", ".", "5", " ", "T", "f">>
Acro == [DA |-> GoodDA, fonts |-> {Helv}]

NoPages == <<[hasAnnots |-> FALSE, Annots |-> <<>>, stamps |-> <<>>]>>
Page(annots) == [hasAnnots |-> TRUE, Annots |-> annots, stamps |-> <<>>]

\* Radio documents: a group (object 1) and its MaxKids buttons. Either the
\* group carries the Radio flag and the buttons inherit it, or each button
\* carries type and flag itself under a parent that is no radio group.
\* The first button has the on-state /A; the others have /A, /B or both.
KidStates == {{Off, StA}, {Off, StB}, {Off, StA, StB}}
RadioDoc(grouped, states, as) ==
    [n \in 1..(MaxKids + 1) |->
        IF n = 1
        THEN Node("absent", <<"r">>, NoParent, [k \in 1..MaxKids |-> k + 1],
                  IF grouped THEN "Btn" ELSE "absent",
                  IF grouped THEN Radio ELSE NoFf)
        ELSE Button(Node("Widget", <<>>, 1, <<>>,
                         IF grouped THEN "absent" ELSE "Btn",
                         IF grouped THEN NoFf ELSE Radio),
                    states[n - 1], as[n - 1])]
RadioDocs ==
    {RadioDoc(TRUE, states, as) :
        states \in {f \in [1..MaxKids -> KidStates] : f[1] = {Off, StA}},
        as \in [1..MaxKids -> {Absent, NameObj(Off)}]}
    \cup
    {RadioDoc(FALSE, [k \in 1..MaxKids |-> {Off, StA}], as) :
        as \in {[k \in 1..MaxKids |-> x] : x \in {Absent, NameObj(Off)}}}

\* Checkbox documents: one checkbox with any set of appearance states
CheckboxDocs ==
    {[n \in {1} |-> [Button(Node("Widget", <<"c">>, NoParent, <<>>, "Btn", ff),
                            states, v) EXCEPT !.V = v]] :
        ff \in {NoFf, 0},
        states \in SUBSET {Off, StA, StB},
        v \in {Absent, NameObj(Off)}}

\* Naming documents: a Parent chain of MaxDepth dictionaries, the last one a
\* text widget, each with or without a /T
Letters == <<"a", "b", "c", "d", "e", "f">>
ChainDoc(named) ==
    [n \in 1..MaxDepth |->
        IF n = MaxDepth
        THEN Widget(Node("Widget", IF named[n] THEN <<Letters[n]>> ELSE <<>>,
                         n - 1, <<>>, "Tx", NoFf), <<0, 0, 50, 10>>, FALSE)
        ELSE Node("absent", IF named[n] THEN <<Letters[n]>> ELSE <<>>,
                  n - 1, <<n + 1>>, "absent", NoFf)]
ChainDocs == {ChainDoc(named) : named \in [1..MaxDepth -> BOOLEAN]}

\* Text documents: a parent (object 1) and a text widget (object 2), each
\* with or without a /DA; the widget with or without an /AP and the
\* Multiline flag. The strings are default appearances with a decimal, an
\* integer and a zero size, without the Tf operator, without a font name,
\* after another operator, and with two spaces and none around the size.
FontW == <<"/", "W">>
FontP == <<"/", "P">>
WidgetDA == <<"/", "W", " ", "8", ".", "0", " ", "T", "f">>
ParentDA == <<"/", "P", " ", "7", ".", "5", " ", "T", "f">>
IntegerDA == <<"/", "W", " ", "1", "2", " ", "T", "f">>
ZeroDA == <<"/", "W", " ", "0", " ", "T", "f">>
NoTfDA == <<"/", "W", " ", "8", ".", "0">>
NoFontDA == <<"8", ".", "0", " ", "T", "f">>
ColourDA == <<"0", " ", "g", " ", "/", "W", " ", "1", "0", ".", "0", "0", " ", "T", "f">>
TightDA == <<"/", "W", " ", " ", "8", ".", "0", "T", "f">>
WidgetDAs ==
    {<<>>, WidgetDA, IntegerDA, ZeroDA, NoTfDA, NoFontDA, ColourDA, TightDA}
AcroForms ==
    {Acro, [DA |-> GoodDA, fonts |-> {Helv, FontW, FontP}],
     [DA |-> <<>>, fonts |-> {Helv, FontW, FontP}]}
TextRect == <<5, 5, 105, 25>>
TextDoc(da, pda, old, ff) ==
    1 :> [Node("absent", <<"p">>, NoParent, <<2>>, "absent", NoFf) EXCEPT !.DA = pda]
    @@
    2 :> [Widget(Node("Widget", <<"f">>, 1, <<>>, "Tx", ff), TextRect, old)
             EXCEPT !.DA = da]
TextDocs ==
    {TextDoc(da, pda, old, ff) :
        da \in WidgetDAs, pda \in {<<>>, ParentDA}, old \in BOOLEAN,
        ff \in {NoFf, Multiline}}

\* Type documents: a parent (object 1) and a widget (object 2); /FT and /Ff
\* are on the widget or on the parent, or missing
FlagValues ==
    {a + b + c + d : a \in {0, Radio}, b \in {0, Pushbutton}, c \in {0, Combo},
                     d \in {0, Multiline}}
    \cup {MultiSelect, MultiSelect + Combo}
TypeDoc(ft, ff, onKid) ==
    1 :> Node("absent", <<"p">>, NoParent, <<2>>,
              IF onKid THEN "absent" ELSE ft, IF onKid THEN NoFf ELSE ff)
    @@
    2 :> LET node == Node("Widget", <<"f">>, 1, <<>>,
                          IF onKid THEN ft ELSE "absent",
                          IF onKid THEN ff ELSE NoFf)
         IN  IF ft = "Btn" THEN Button(node, {Off, StA}, NameObj(Off))
             ELSE Widget(node, <<5, 5, 105, 25>>, TRUE)
TypeDocs ==
    {TypeDoc(ft, ff, onKid) :
        ft \in {"Sig", "Btn", "Ch", "Tx", "absent"},
        ff \in FlagValues \cup {NoFf}, onKid \in BOOLEAN}

\* Form documents: of a radio group (1) with two buttons (2, 3), a
\* signature field (4), a text field (5), a link annotation (6) and a
\* checkbox (7), some on page 1 in some order, and a second signature field
\* (8) on page 2
FormNodes ==
    1 :> Node("absent", <<"r">>, NoParent, <<2, 3>>, "Btn", Radio) @@
    2 :> Button(Node("Widget", <<>>, 1, <<>>, "absent", NoFf), {Off, StA}, NameObj(Off)) @@
    3 :> Button(Node("Widget", <<>>, 1, <<>>, "absent", NoFf), {Off, StB}, NameObj(Off)) @@
    4 :> Widget(Node("Widget", <<"s">>, NoParent, <<>>, "Sig", NoFf), <<36, 30, 234, 59>>, FALSE) @@
    5 :> Widget(Node("Widget", <<"t">>, NoParent, <<>>, "Tx", NoFf), <<40, 70, 140, 90>>, FALSE) @@
    6 :> Node("Link", <<>>, NoParent, <<>>, "absent", NoFf) @@
    7 :> Button(Node("Widget", <<"c">>, NoParent, <<>>, "Btn", NoFf), {Off, StA}, NameObj(Off)) @@
    8 :> Widget(Node("Widget", <<"g">>, NoParent, <<>>, "Sig", NoFf), <<36, 30, 234, 59>>, FALSE)
AnnotOrders ==
    {<<4, 5>>, <<5, 4>>, <<2, 3, 4>>, <<2, 4, 3>>, <<4, 2, 3>>, <<6, 4>>, <<7, 4>>,
     <<4, 7>>, <<7, 5>>}
\* the objects of a document whose page 1 has these annotations
Range(seq) == {seq[i] : i \in 1..Len(seq)}
FormDoc(annots) ==
    LET used == (Range(annots) \cup {8}
                 \cup {FormNodes[n].Parent : n \in Range(annots)}) \ {NoParent}
    IN  [n \in used |-> FormNodes[n]]
FormPages(annots) == <<Page(annots), Page(<<8>>)>>

\* Two radio groups named t1 and t2 with their buttons, a signature widget
\* and a field whose kid is a signature widget; groups of one name, of no
\* name and of different names, and the annotations of the page
FieldsDoc(t1, t2) ==
    1 :> Node("absent", t1, NoParent, <<2, 3>>, "Btn", Radio) @@
    2 :> Button(Node("Widget", <<>>, 1, <<>>, "absent", NoFf), {Off, StA}, NameObj(Off)) @@
    3 :> Button(Node("Widget", <<>>, 1, <<>>, "absent", NoFf), {Off, StB}, NameObj(Off)) @@
    4 :> Node("absent", t2, NoParent, <<5>>, "Btn", Radio) @@
    5 :> Button(Node("Widget", <<>>, 4, <<>>, "absent", NoFf), {Off, StA}, NameObj(Off)) @@
    6 :> Widget(Node("Widget", <<"u">>, NoParent, <<>>, "Sig", NoFf), <<36, 30, 234, 59>>, FALSE) @@
    7 :> Node("absent", <<"v">>, NoParent, <<8>>, "Sig", NoFf) @@
    8 :> Widget(Node("Widget", <<"w">>, 7, <<>>, "absent", NoFf), <<36, 30, 234, 59>>, FALSE)
FieldsDocs == {FieldsDoc(<<"r">>, <<"r">>), FieldsDoc(<<>>, <<>>), FieldsDoc(<<"r">>, <<>>)}
FieldsAnnots == <<2, 5, 3, 7, 6>>

\* The fill instructions: values by qualified name, and the '.stamps' list
DataUrl == Py("str", DataPrefix \o <<"x">>)
NoData == [fields |-> <<>>, hasStamps |-> FALSE, stamps |-> <<>>]
Data(fields) == [fields |-> fields, hasStamps |-> FALSE, stamps |-> <<>>]
\* images for a rect 40 wide and 20 high on the second page
StampRect == <<10, 20, 50, 40>>
StampData(images) ==
    [fields |-> <<>>, hasStamps |-> TRUE,
     stamps |-> [i \in 1..Len(images) |->
                    [img |-> images[i], page |-> 2, rect |-> StampRect]]]
DataSets ==
    {NoData,
     [fields |-> (<<"s">> :> ImagePath @@ <<"t">> :> Py("str", <<"x">>)
                  @@ <<"c">> :> PyTrue @@ <<"r">> :> Py("str", <<"A">>)),
      hasStamps |-> TRUE,
      stamps |-> <<[img |-> ImagePath, page |-> 1, rect |-> <<36, 30, 234, 59>>]>>],
     Data(<<"s">> :> ImagePath),
     Data(<<"s">> :> PyNone @@ <<"t">> :> Py("str", <<"x">>)),
     Data(<<"s">> :> DataUrl),
     Data(<<"g">> :> ImagePath @@ <<"r">> :> Py("str", <<"B">>)),
     [fields |-> (<<"c">> :> Py("int", <<"1">>) @@ <<"s">> :> ImagePath
                  @@ <<"g">> :> ImagePath @@ <<"t">> :> Py("str", <<"x">>)),
      hasStamps |-> TRUE,
      stamps |-> <<[img |-> ImagePath, page |-> 2, rect |-> <<36, 30, 234, 59>>]>>],
     Data(<<"p", ".", "f">> :> Py("str", <<"x">>)),
     StampData(<<ImageSmall, ImageLarge, ImageTall, ImageNarrow, ImageWide,
                 ImageFlat>>)}

\* Fonts: the widths of the characters 32 to 97, a space and an 'a' of 1000
\* and 500 for the rest, without and with a /Leading
Courier ==
    [name |-> Helv, Subtype |-> "Type1", FirstChar |-> 32,
     Widths |-> [i \in 1..66 |-> IF i \in {1, 66} THEN 1000 ELSE 500],
     MissingWidth |-> NoEntry, AvgWidth |-> NoEntry, MaxWidth |-> NoEntry,
     Leading |-> NoEntry]
CourierLed == [Courier EXCEPT !.Leading = 3]
\* Fonts for get_char_width: a table of one width from 'a' on with all the
\* fallback widths, and a table of two from 'b' on with AvgWidth and MaxWidth
FontFromA ==
    [Courier EXCEPT !.FirstChar = 97, !.Widths = <<600>>, !.MissingWidth = 250,
                    !.AvgWidth = 400, !.MaxWidth = 900]
FontFromB ==
    [Courier EXCEPT !.FirstChar = 98, !.Widths = <<600, 700>>, !.AvgWidth = 400,
                    !.MaxWidth = 900]
CharFonts == <<Courier, FontFromA, FontFromB>>
Chars == {"a", "b", Space}

\* The keyword arguments of the layout functions, as they default
Defaults ==
    [font_scale |-> 1, include_set_font |-> TRUE, include_set_spacing |-> TRUE,
     include_clip_rect |-> TRUE, padding |-> <<0>>, char_spacing |-> 0,
     word_spacing |-> 0, leading |-> NoLeading, paragraph_spacing |-> 1]

\* The texts: every string of at most MaxLen letters, spaces and newlines
Alphabet == {"a", Space, Newline}
Texts == UNION {[1..n -> Alphabet] : n \in 0..MaxLen}

\* The jobs: a text with a rectangle too narrow for any word; one that
\* holds two letters and a space; one that holds two letters, with word
\* spacing, a leading and double paragraph spacing; and a wider one with
\* padding at font size 2
JobSettings ==
    {[rect |-> <<2, 3, 2, 13>>, font |-> Courier, o |-> Defaults],
     [rect |-> <<2, 3, 5, 13>>, font |-> Courier, o |-> Defaults],
     [rect |-> <<2, 3, 4, 13>>, font |-> Courier,
      o |-> [Defaults EXCEPT !.word_spacing = 1, !.leading = 2,
                             !.paragraph_spacing = 2, !.include_clip_rect = FALSE]],
     [rect |-> <<2, 3, 10, 13>>, font |-> CourierLed,
      o |-> [Defaults EXCEPT !.font_scale = 2, !.padding = <<1, 0>>,
                             !.include_set_font = FALSE]]}
Job(text, setting) ==
    [text |-> text, rect |-> setting.rect, font |-> setting.font, o |-> setting.o]
Jobs == {Job(text, setting) : text \in Texts, setting \in JobSettings}
DefaultJob ==
    Job(<<"a", Space, "a", Newline, "a">>,
        [rect |-> <<2, 3, 5, 13>>, font |-> Courier, o |-> Defaults])
WrapDoc ==
    1 :> Widget(Node("Widget", <<"s">>, NoParent, <<>>, "Sig", NoFf),
                <<36, 30, 234, 59>>, FALSE)

\* The values assigned to Field.value, by the input type of the field:
\* state names with and without the slash, as str and as Name, booleans,
\* None, and values of a wrong type
RadioValues ==
    {Py("str", <<"A">>), Py("str", StB), Py("Name", StA), Py("Name", StC),
     Py("int", <<"1">>)}
CheckboxValues ==
    {PyTrue, PyFalse, PyNone, Py("Name", StA), Py("str", StB), Py("str", <<"A">>),
     Py("int", <<"1">>)}
TextValues == {Py("str", <<"A">>), Py("int", <<"1">>)}
Values(type) ==
    IF type = "radio" THEN RadioValues
    ELSE IF type = "checkbox" THEN CheckboxValues
    ELSE IF type = "signature" THEN CheckboxValues \cup TextValues
    ELSE TextValues

\* The fields a caller assigns to: the widgets and the radio groups
Fields(ns) ==
    {n \in DOMAIN ns : ns[n].Subtype = "Widget" \/ input_type(ns, n) = "radio"}

\* The orders in which sets of these state names give up their elements
Orders(names) ==
    {order \in [1..Cardinality(names) -> names] :
        \A i, j \in 1..Cardinality(names) : i # j => order[i] # order[j]}

----------------------------------------------------------------------------
(* The state machine *)

NoCall == [op |-> "init", target |-> 0, value |-> PyNone, err |-> "none",
           warned |-> FALSE, result |-> PyNone, data |-> NoData]
Tft0 == [n |-> 0, k |-> 0, on |-> <<>>]

\* the state once the document is opened
Opened ==
    /\ acroForm = Acro
    /\ call = NoCall
    /\ pre = nodes
    /\ prePages = pages
    /\ tft = Tft0
    /\ job = DefaultJob

Init ==
    \E annots \in AnnotOrders :
        nodes = FormDoc(annots) /\ pages = FormPages(annots) /\ Opened
InitRadio ==
    nodes \in RadioDocs /\ pages = <<Page([k \in 1..MaxKids |-> k + 1])>> /\ Opened
InitCheckbox == nodes \in CheckboxDocs /\ pages = <<Page(<<1>>)>> /\ Opened
InitNames == nodes \in ChainDocs /\ pages = <<Page(<<MaxDepth>>)>> /\ Opened
InitTypes == nodes \in TypeDocs /\ pages = <<Page(<<2>>)>> /\ Opened
InitText ==
    /\ nodes \in TextDocs
    /\ pages = <<Page(<<2>>)>>
    /\ acroForm \in AcroForms
    /\ call = NoCall
    /\ pre = nodes
    /\ prePages = pages
    /\ tft = Tft0
    /\ job = DefaultJob
InitFields ==
    /\ nodes \in FieldsDocs
    /\ pages = <<Page(FieldsAnnots)>>
    /\ Opened
\* a document of one signature field and no page, and any of the jobs
InitWrap ==
    /\ nodes = WrapDoc
    /\ pages = <<>>
    /\ acroForm = Acro
    /\ call = NoCall
    /\ pre = nodes
    /\ prePages = pages
    /\ tft = Tft0
    /\ job \in Jobs

\* the progress through True, False, True of consecutive successful
\* assignments to one checkbox, with the on-state the first True wrote
NextTft(n, value, w) ==
    IF input_type(nodes, n) # "checkbox" \/ w.err # "none" THEN Tft0
    ELSE IF value = PyTrue THEN
        IF tft.n = n /\ tft.k = 2 THEN [tft EXCEPT !.k = 3]
        ELSE [n |-> n, k |-> 1, on |-> w.nodes[n].V.s]
    ELSE IF value = PyFalse /\ tft.n = n /\ tft.k = 1 THEN [tft EXCEPT !.k = 2]
    ELSE Tft0

\* field.value = value
SetValue ==
    \E n \in Fields(nodes) :
    \E value \in Values(input_type(nodes, n)) :
    \E order \in Orders(nodes[n].states \ {Off}) :
    \E w \in {set_value(World(nodes, pages), n, value, order, acroForm)} :
        /\ nodes' = w.nodes
        /\ pages' = w.pages
        /\ call' = [NoCall EXCEPT !.op = "set_value", !.target = n, !.value = value,
                                  !.err = w.err, !.warned = w.warned]
        /\ pre' = nodes
        /\ prePages' = pages
        /\ tft' = NextTft(n, value, w)
        /\ UNCHANGED <<acroForm, job>>

\* field.qualified_name
ReadQualifiedName ==
    \E n \in DOMAIN nodes :
        /\ call' = [NoCall EXCEPT !.op = "qualified_name", !.target = n,
                                  !.result = get_qualified_field_name(nodes, n)]
        /\ pre' = nodes
        /\ prePages' = pages
        /\ tft' = Tft0
        /\ UNCHANGED <<nodes, pages, acroForm, job>>

\* field.input_type
ReadInputType ==
    \E n \in DOMAIN nodes :
        /\ call' = [NoCall EXCEPT !.op = "input_type", !.target = n,
                                  !.result = Py("InputType", <<input_type(nodes, n)>>)]
        /\ pre' = nodes
        /\ prePages' = pages
        /\ tft' = Tft0
        /\ UNCHANGED <<nodes, pages, acroForm, job>>

\* the number of images stamped on the pages
RECURSIVE StampsFrom(_, _)
StampsFrom(ps, p) ==
    IF p > Len(ps) THEN 0 ELSE Len(ps[p].stamps) + StampsFrom(ps, p + 1)
Stamps(ps) == StampsFrom(ps, 1)

\* fill_form(pdf, data), while the pages hold fewer than MaxStamps stamps
FillForm ==
    \E data \in DataSets, order \in Orders({StA, StB}) :
    \E w \in {fill_form(World(nodes, pages), data, order, acroForm)} :
        /\ Stamps(pages) < MaxStamps
        /\ nodes' = w.nodes
        /\ pages' = w.pages
        /\ call' = [NoCall EXCEPT !.op = "fill_form", !.data = data,
                                  !.err = w.err, !.warned = w.warned]
        /\ pre' = nodes
        /\ prePages' = pages
        /\ tft' = Tft0
        /\ UNCHANGED <<acroForm, job>>

\* font.word_wrap(text, width, font_scale, char_spacing, word_spacing) with
\* the width layout_text_multiline hands it
WordWrap ==
    \E wrapped \in {word_wrap(job.font, job.text,
                              Width(job.rect) - pad_x(job.o.padding) * 2,
                              job.o.font_scale, job.o.char_spacing,
                              job.o.word_spacing)} :
        /\ call' = [NoCall EXCEPT !.op = "word_wrap", !.err = wrapped.err,
                                  !.result = wrapped.paragraphs]
        /\ pre' = nodes
        /\ prePages' = pages
        /\ tft' = Tft0
        /\ UNCHANGED <<nodes, pages, acroForm, job>>

\* layout_text_multiline(pdf, text, rect, font, ...)
LayoutMultiline ==
    \E stream \in {layout_text_multiline(job.text, job.rect, job.font, job.o)} :
        /\ call' = [NoCall EXCEPT !.op = "layout_text_multiline", !.err = stream.err,
                                  !.result = stream.ops]
        /\ pre' = nodes
        /\ prePages' = pages
        /\ tft' = Tft0
        /\ UNCHANGED <<nodes, pages, acroForm, job>>

\* layout_text_line(pdf, text, rect, font, ...)
LayoutLine ==
    \E stream \in {layout_text_line(job.text, job.rect, job.font, job.o)} :
        /\ call' = [NoCall EXCEPT !.op = "layout_text_line", !.err = stream.err,
                                  !.result = stream.ops]
        /\ pre' = nodes
        /\ prePages' = pages
        /\ tft' = Tft0
        /\ UNCHANGED <<nodes, pages, acroForm, job>>

\* The lists iter_fields is called on: the Annots of a page, the Kids of a
\* field, and the Fields of the AcroForm, the fields without a parent
RECURSIVE Ascending(_)
Ascending(set) ==
    IF set = {} THEN <<>>
    ELSE LET least == CHOOSE n \in set : \A m \in set : n <= m
         IN  <<least>> \o Ascending(set \ {least})
AnnotLists ==
    {pages[p].Annots : p \in 1..Len(pages)}
    \cup {nodes[n].Kids : n \in {m \in DOMAIN nodes : nodes[m].Kids # <<>>}}
    \cup {Ascending({n \in DOMAIN nodes : nodes[n].Parent = NoParent})}

\* list(iter_fields(pdf, annots))
IterFields ==
    \E annots \in AnnotLists :
        /\ call' = [NoCall EXCEPT !.op = "iter_fields", !.value = Py("list", annots),
                                  !.result = Py("list", iter_fields(nodes, annots))]
        /\ pre' = nodes
        /\ prePages' = pages
        /\ tft' = Tft0
        /\ UNCHANGED <<nodes, pages, acroForm, job>>

\* font.get_char_width(char)
GetCharWidth ==
    \E k \in DOMAIN CharFonts, char \in Chars :
        /\ call' = [NoCall EXCEPT
                !.op = "get_char_width", !.target = k,
                !.value = Py("str", <<char>>),
                !.err = get_char_width_err(CharFonts[k], char, NoScale),
                !.result =
                    IF get_char_width_err(CharFonts[k], char, NoScale) # "none"
                    THEN PyNone
                    ELSE Py("float", <<get_char_width(CharFonts[k], char, NoScale)>>)]
        /\ pre' = nodes
        /\ prePages' = pages
        /\ tft' = Tft0
        /\ UNCHANGED <<nodes, pages, acroForm, job>>

\* The operators appended to a stream, with operands from the rectangle of
\* the job, and the stream they are appended to, one that holds an operation
Operators == {"m", "q"}
OperandsOf(operator) ==
    IF operator = "m" THEN <<Number(job.rect[3]), Number(job.rect[4])>> ELSE <<>>
Streams == <<push_stack(ContentStream)>>

\* str(stream.operation(operator, *operands))
StreamOperation ==
    \E operator \in Operators, base \in DOMAIN Streams :
        /\ call' = [NoCall EXCEPT
                !.op = "operation", !.target = base,
                !.value = Py("Operator", <<operator>>),
                !.result = str_ContentStream(
                    operation(Streams[base], operator, OperandsOf(operator)).ops)]
        /\ pre' = nodes
        /\ prePages' = pages
        /\ tft' = Tft0
        /\ UNCHANGED <<nodes, pages, acroForm, job>>

\* str(stream.append(Operator(operator)(*operands)))
StreamAppend ==
    \E operator \in Operators, base \in DOMAIN Streams :
        /\ call' = [NoCall EXCEPT
                !.op = "append", !.target = base,
                !.value = Py("Operator", <<operator>>),
                !.result = str_ContentStream(
                    append(Streams[base],
                           Operator_call(operator, OperandsOf(operator))).ops)]
        /\ pre' = nodes
        /\ prePages' = pages
        /\ tft' = Tft0
        /\ UNCHANGED <<nodes, pages, acroForm, job>>

\* str(stream.move(x, y)) and str(stream.push_stack())
StreamShortcut ==
    \E operator \in Operators, base \in DOMAIN Streams :
        /\ call' = [NoCall EXCEPT
                !.op = "shortcut", !.target = base,
                !.value = Py("Operator", <<operator>>),
                !.result = str_ContentStream(
                    (IF operator = "m"
                        THEN move(Streams[base], job.rect[3], job.rect[4])
                        ELSE push_stack(Streams[base])).ops)]
        /\ pre' = nodes
        /\ prePages' = pages
        /\ tft' = Tft0
        /\ UNCHANGED <<nodes, pages, acroForm, job>>

Next ==
    \/ SetValue
    \/ ReadQualifiedName
    \/ ReadInputType
    \/ FillForm
    \/ WordWrap
    \/ LayoutMultiline
    \/ LayoutLine
    \/ StreamOperation
    \/ StreamAppend
    \/ StreamShortcut
    \/ IterFields
    \/ GetCharWidth

\* a form document
Spec == Init /\ [][Next]_vars
\* a radio group
SpecRadio == InitRadio /\ [][Next]_vars
\* a checkbox
SpecCheckbox == InitCheckbox /\ [][Next]_vars
\* a chain of named and unnamed fields
SpecNames == InitNames /\ [][Next]_vars
\* a field of every type and flag combination
SpecTypes == InitTypes /\ [][Next]_vars
\* a text field under a parent
SpecText == InitText /\ [][Next]_vars
\* a text to wrap and lay out
SpecWrap == InitWrap /\ [][Next]_vars
\* two radio groups and other fields
SpecFields == InitFields /\ [][Next]_vars

----------------------------------------------------------------------------
(* What the last call was *)

\* the last call assigned to a field of this input type
Assigned(type) ==
    call.op = "set_value" /\ input_type(pre, call.target) = type

\* the last call assigned to a radio group: a radio field with Kids
AssignedGroup == Assigned("radio") /\ pre[call.target].Kids # <<>>

\* the buttons of the group the last call assigned to, and the state name
\* the assigned value stands for
GroupKids == Range(pre[call.target].Kids)
AssignedName == RadioCoerce(call.value)
OnStates(node) == node.states \ {Off}

----------------------------------------------------------------------------
----------------------------------------------------------------------------
----------------------------------------------------------------------------
(* C3: a radio value assigned to a button without Kids goes to its parent: *)
(* with a radio parent the group ends as if the parent had been assigned   *)
(* to, with another parent the call fails with the 'not part of any group' *)
(* RuntimeError and changes nothing.                                       *)
C3_ButtonResolvesToGroup ==
    (Assigned("radio") /\ pre[call.target].Kids = <<>>) =>
        LET parent == pre[call.target].Parent IN
        IF parent # NoParent /\ input_type(pre, parent) = "radio"
        THEN /\ call.err = "none"
             /\ nodes[parent].V = NameObj(AssignedName)
             /\ \A k \in Range(pre[parent].Kids) :
                    AssignedName \in OnStates(pre[k])
                        => nodes[k].AS = NameObj(AssignedName)
        ELSE call.err = "RuntimeError" /\ nodes = pre

----------------------------------------------------------------------------
(* Checkboxes *)

\* the last call assigned to a checkbox that has an appearance dictionary
AssignedCheckbox == Assigned("checkbox") /\ pre[call.target].hasAP
IsBoolOrNone(value) == value \in {PyTrue, PyFalse, PyNone}

(* C4: on a checkbox with exactly one non-Off state S, True writes S to V  *)
(* and AS, False and None write Off to both, and the third assignment of a *)
(* run True, False, True writes the on-state the first one wrote.          *)
C4_TrueFalseNone ==
    (AssignedCheckbox /\ Cardinality(OnStates(pre[call.target])) = 1) =>
        LET S == CHOOSE s \in OnStates(pre[call.target]) : TRUE
            field == nodes[call.target]
        IN  /\ call.value = PyTrue =>
                call.err = "none" /\ field.V = NameObj(S) /\ field.AS = NameObj(S)
            /\ call.value \in {PyFalse, PyNone} =>
                call.err = "none" /\ field.V = NameObj(Off) /\ field.AS = NameObj(Off)
            /\ (tft.n = call.target /\ tft.k = 3) =>
                field.V = NameObj(tft.on) /\ field.AS = NameObj(tft.on)

\* True, False, True has been assigned to a checkbox with the one on-state /A
C4_Witness ==
    /\ AssignedCheckbox
    /\ OnStates(pre[call.target]) = {StA}
    /\ tft.n = call.target /\ tft.k = 3
    /\ pre[call.target].V = NameObj(Off)
    /\ nodes[call.target].AS = NameObj(StA)

(* C5: True, False or None assigned to a checkbox whose appearance         *)
(* dictionary has no non-Off state, or more than one, fails with an error. *)
C5_MalformedFails ==
    (/\ AssignedCheckbox
     /\ IsBoolOrNone(call.value)
     /\ Cardinality(OnStates(pre[call.target])) # 1)
        => call.err # "none"

(* C6: a value that is no boolean, not None and no str or name among the   *)
(* keys of the appearance dictionary, assigned to a checkbox, raises       *)
(* ValueError and leaves V and AS as they were.  As stated this fails: a   *)
(* dictionary without a non-Off state gives KeyError.                      *)
C6_ValueError ==
    (/\ AssignedCheckbox
     /\ ~IsBoolOrNone(call.value)
     /\ ~PyIn(call.value, pre[call.target].states))
        => /\ call.err = "ValueError"
           /\ nodes[call.target].V = pre[call.target].V
           /\ nodes[call.target].AS = pre[call.target].AS

(* C6, amended: such a value raises KeyError when the dictionary has no    *)
(* non-Off state and ValueError when it has one; V and AS stay as they     *)
(* were either way.                                                        *)
C6_Refused ==
    (/\ AssignedCheckbox
     /\ ~IsBoolOrNone(call.value)
     /\ ~PyIn(call.value, pre[call.target].states))
        => /\ call.err = IF OnStates(pre[call.target]) = {} THEN "KeyError"
                         ELSE "ValueError"
           /\ nodes[call.target].V = pre[call.target].V
           /\ nodes[call.target].AS = pre[call.target].AS

\* an int was refused by a checkbox that stands at Off and has an on-state
C6_Witness ==
    /\ AssignedCheckbox
    /\ call.value = Py("int", <<"1">>)
    /\ call.err = "ValueError"
    /\ OnStates(pre[call.target]) # {}
    /\ nodes[call.target].V = NameObj(Off)

----------------------------------------------------------------------------
(* C7: an assignment to a signature field raises nothing, warns, and       *)
(* leaves V, AS and AP of the field, every other dictionary and the pages  *)
(* as they were.                                                           *)
C7_SignatureSkipped ==
    Assigned("signature") =>
        /\ call.err = "none"
        /\ call.warned
        /\ nodes = pre
        /\ pages = prePages

\* a str was assigned to a signature widget that has an appearance stream
C7_Witness ==
    /\ Assigned("signature")
    /\ call.value = Py("str", <<"A">>)
    /\ call.warned
    /\ nodes[call.target].Subtype = "Widget"
    /\ nodes[call.target].N = OldStream
    /\ nodes[call.target].V = Absent

----------------------------------------------------------------------------
(* Input types *)

\* bit number k, from 0, of the flags word
Bit(flags, k) == (flags \div (2 ^ k)) % 2 = 1
InputTypes ==
    {"text", "textarea", "password", "select", "combo", "checkbox", "radio",
     "button", "signature"}
\* the table of the nine input types, by field type tag and flags word
InputTypeTable(ft, ff) ==
    CASE ft = "Sig" -> "signature"
      [] ft = "Btn" /\ Bit(ff, 15) -> "radio"
      [] ft = "Btn" /\ ~Bit(ff, 15) /\ Bit(ff, 16) -> "button"
      [] ft = "Btn" /\ ~Bit(ff, 15) /\ ~Bit(ff, 16) -> "checkbox"
      [] ft = "Ch" /\ Bit(ff, 17) -> "combo"
      [] ft = "Ch" /\ ~Bit(ff, 17) -> "select"
      [] ft = "Tx" /\ Bit(ff, 16) -> "password"
      [] ft = "Tx" /\ ~Bit(ff, 16) /\ Bit(ff, 12) -> "textarea"
      [] ft = "Tx" /\ ~Bit(ff, 16) /\ ~Bit(ff, 12) -> "text"

(* C10: a read of input_type gives what the table gives for the inherited  *)
(* field type tag and the field flags alone, whatever else the document    *)
(* holds and whatever was read or assigned before: one of the nine input   *)
(* types, by the precedence Sig; Btn: Radio, Pushbutton, checkbox; Ch:     *)
(* Combo, select; Tx: Pushbutton bit, Multiline, text.                     *)
C10_InputTypeTable ==
    (/\ call.op = "input_type"
     /\ get_inheritable_FT(pre, call.target) \in {"Sig", "Btn", "Ch", "Tx"}) =>
        LET ft == get_inheritable_FT(pre, call.target)
            ff == field_flags(pre, call.target)
        IN  /\ call.result.s[1] = InputTypeTable(ft, ff)
            /\ call.result.s[1] \in InputTypes
            /\ nodes = pre

\* a button with both the Radio and the Pushbutton flag was read as radio
C10_Witness ==
    /\ call.op = "input_type"
    /\ get_inheritable_FT(pre, call.target) = "Btn"
    /\ Bit(field_flags(pre, call.target), 15)
    /\ Bit(field_flags(pre, call.target), 16)
    /\ call.result = Py("InputType", <<"radio">>)

----------------------------------------------------------------------------
(* C8: after fill_form the annotation list of every page is the list it    *)
(* was without the signature fields whose qualified name has a value other *)
(* than None in the data: nothing else is gone, the rest is in its order.  *)
C8_SignaturesRemoved ==
    (call.op = "fill_form" /\ call.err = "none") =>
        \A p \in 1..Len(pages) :
            LET Stays(a) == ~IsStamped(World(pre, prePages), a, call.data)
            IN  pages[p].Annots = SelectSeq(prePages[p].Annots, Stays)

----------------------------------------------------------------------------
(* Qualified names *)

\* the local names of the named dictionaries from the root down to n
RECURSIVE NamedChain(_, _)
NamedChain(ns, n) ==
    (IF ns[n].Parent = NoParent THEN <<>> ELSE NamedChain(ns, ns[n].Parent))
    \o (IF ns[n].T = <<>> THEN <<>> ELSE <<ns[n].T>>)
RECURSIVE DotJoin(_)
DotJoin(names) ==
    IF Len(names) = 1 THEN names[1]
    ELSE DotJoin(SubSeq(names, 1, Len(names) - 1)) \o Dot \o names[Len(names)]

(* C9: the qualified name of a dictionary is the dot-join, from the root   *)
(* down, of the local names of the named dictionaries on its Parent chain; *)
(* an unnamed one, in the middle or at the root, gives no segment.         *)
C9_DotJoinOfNamed ==
    (call.op = "qualified_name" /\ NamedChain(pre, call.target) # <<>>) =>
        call.result = Py("str", DotJoin(NamedChain(pre, call.target)))

----------------------------------------------------------------------------
(* C11: a dictionary with no /FT on itself or any ancestor has no input    *)
(* type, and fill_form leaves its V and AP as they were even when the data *)
(* has a value for its qualified name.                                     *)
C11_UntypedNotFilled ==
    call.op = "fill_form" =>
        \A n \in DOMAIN pre :
            get_inheritable_FT(pre, n) = "absent" =>
                /\ input_type(pre, n) = "None"
                /\ nodes[n].V = pre[n].V
                /\ nodes[n].hasAP = pre[n].hasAP
                /\ nodes[n].N = pre[n].N

----------------------------------------------------------------------------
(* Text fields *)

\* the last call assigned to a text field
AssignedText ==
    call.op = "set_value" /\ input_type(pre, call.target) \in {"text", "textarea"}

\* the /DA of the nearest dictionary that has one, from the field up, and
\* the AcroForm's when none has
NearestDA ==
    LET chain == {n \in DOMAIN pre : n \in {call.target, pre[call.target].Parent}}
        with == {n \in chain : pre[n].DA # <<>>}
    IN  IF call.target \in with THEN pre[call.target].DA
        ELSE IF with # {} THEN pre[CHOOSE n \in with : TRUE].DA
        ELSE acroForm.DA

(* C12: a text assignment takes the default appearance of the nearest      *)
(* dictionary on the chain field, ancestors that has a /DA, the AcroForm's *)
(* only when none has, and fails with the RuntimeError of a corrupted      *)
(* document when there is none at any level.                               *)
C12_NearestDA ==
    AssignedText =>
        /\ NearestDA = <<>> => call.err = "RuntimeError"
        /\ call.err = "none" => nodes[call.target].N.da = NearestDA

\* the parent's /DA was used for a field without one, not the AcroForm's
C12_Witness ==
    /\ AssignedText
    /\ call.err = "none"
    /\ pre[call.target].DA = <<>>
    /\ acroForm.DA = GoodDA
    /\ nodes[call.target].N.da = ParentDA

\* a number: digits, or digits, a point and digits
IsNumber(s) ==
    /\ s # <<>>
    /\ s[1] \in Digits /\ s[Len(s)] \in Digits
    /\ \A i \in 1..Len(s) : s[i] \in Digits \cup {"."}
    /\ Cardinality({i \in 1..Len(s) : s[i] = "."}) <= 1
\* s[i..j] is not empty and all its characters are in the set
AllIn(s, i, j, set) == i <= j /\ \A h \in i..j : s[h] \in set
\* the string has a font name that starts with '/', whitespace, a number,
\* and the Tf operator
HasFontSizeTf(s) ==
    \E i, j, k, m, e \in 1..Len(s) :
        /\ i < j /\ j < k /\ k < m /\ m <= e /\ e + 2 <= Len(s)
        /\ s[i] = "/"
        /\ \A h \in (i + 1)..j : s[h] \notin Whitespace
        /\ AllIn(s, j + 1, k, Whitespace)
        /\ IsNumber(SubSeq(s, k + 1, m))
        /\ \A h \in (m + 1)..e : s[h] \in Whitespace
        /\ s[e + 1] = "T" /\ s[e + 2] = "f"

(* C13: the layout accepts a default appearance exactly when it has a font *)
(* name with '/', whitespace, a size that is an integer or a decimal, and  *)
(* Tf; without these it raises ValueError.                                 *)
C13_AcceptsEverySize ==
    (AssignedText /\ NearestDA # <<>>) =>
        (call.err = "ValueError" <=> ~HasFontSizeTf(NearestDA))

----------------------------------------------------------------------------
(* C15: an assignment to a select or combo field with the MultiSelect flag *)
(* raises NotImplementedError before anything is written: flags, V and AP  *)
(* of the field, and all the rest, are as they were.                       *)
C15_MultiSelectRejected ==
    (/\ call.op = "set_value"
     /\ input_type(pre, call.target) \in {"select", "combo"}
     /\ Bit(field_flags(pre, call.target), 21)) =>
        /\ call.err = "NotImplementedError"
        /\ nodes = pre
        /\ pages = prePages

\* a multi-select list box without the Combo flag was assigned to
C15_Witness ==
    /\ Assigned("select")
    /\ field_flags(pre, call.target) = MultiSelect
    /\ call.err = "NotImplementedError"
    /\ nodes[call.target].V = Absent

----------------------------------------------------------------------------
(* Failures during fill_form *)

\* the fields of the document before the call in the order fill_form comes
\* to them, each with its page
RECURSIVE FieldsFrom(_)
FieldsFrom(p) ==
    IF p > Len(prePages) THEN <<>>
    ELSE LET fields == iter_fields(pre, prePages[p].Annots)
         IN  [i \in 1..Len(fields) |-> [page |-> p, field |-> fields[i]]]
             \o FieldsFrom(p + 1)
\* the value the data of the last call has for a field, None when it has none
DataFor(f) ==
    LET key == get_qualified_field_name(pre, f) IN
    IF key.ty = "str" /\ key.s \in DOMAIN call.data.fields
        THEN call.data.fields[key.s] ELSE PyNone
IsSignature(f) == get_inheritable_FT(pre, f) = "Sig"
\* the assignments that raise in a form document: a data: URL for a
\* signature field, and a checkbox value that is no boolean and no state
Refused(f) ==
    /\ DataFor(f) # PyNone
    /\ \/ IsSignature(f) /\ StartsWith(DataFor(f).s, DataPrefix)
       \/ /\ input_type(pre, f) = "checkbox"
          /\ ~IsBoolOrNone(DataFor(f))
          /\ ~PyIn(DataFor(f), pre[f].states)

(* C16: when the assignment of one field raises during fill_form the call  *)
(* ends with that error: no field after it, on its page or a later one, is *)
(* assigned or stamped, no annotation is deleted, and no '.stamps' entry   *)
(* is placed.                                                              *)
C16_FailureAborts ==
    (call.op = "fill_form" /\ call.err # "none") =>
        LET all == FieldsFrom(1) IN
        \E k \in 1..Len(all) :
            /\ Refused(all[k].field)
            /\ \A j \in 1..(k - 1) : ~Refused(all[j].field)
            /\ \A j \in k..Len(all) :
                \A n \in {all[j].field} \cup Range(pre[all[j].field].Kids) :
                    nodes[n] = pre[n]
            /\ \A p \in 1..Len(pages) :
                /\ pages[p].Annots = prePages[p].Annots
                /\ Len(pages[p].stamps) = Len(prePages[p].stamps)
                    + Cardinality({j \in 1..(k - 1) :
                          /\ all[j].page = p
                          /\ IsSignature(all[j].field)
                          /\ DataFor(all[j].field) # PyNone})

\* a signature field was stamped, then a checkbox refused its value: the
\* annotation of the signature is still there, page 2 has no stamp
C16_Witness ==
    /\ call.op = "fill_form"
    /\ call.err = "ValueError"
    /\ call.data.hasStamps
    /\ prePages[1].Annots = <<4, 7>>
    /\ pages[1].Annots = <<4, 7>>
    /\ Len(pages[1].stamps) = Len(prePages[1].stamps) + 1
    /\ pages[2].stamps = <<>>

----------------------------------------------------------------------------
(* Word wrap *)

\* the last call wrapped the text of the job, and returned
Wrapped == call.op = "word_wrap" /\ call.err = "none"
MaxWidth == Width(job.rect) - pad_x(job.o.padding) * 2

\* the k-th element of a set of positions
Nth(positions, k) ==
    CHOOSE i \in positions : Cardinality({j \in positions : j < i}) = k - 1
\* the segments of the text between its newlines; a newline at the end of
\* the text ends the last segment
Newlines == {i \in 1..Len(job.text) : job.text[i] = Newline}
NumSegments ==
    IF job.text = <<>> THEN 0
    ELSE Cardinality(Newlines)
         + (IF job.text[Len(job.text)] = Newline THEN 0 ELSE 1)
Segment(k) ==
    LET from == IF k = 1 THEN 1 ELSE Nth(Newlines, k - 1) + 1
        to == IF k > Cardinality(Newlines) THEN Len(job.text)
              ELSE Nth(Newlines, k) - 1
    IN  SubSeq(job.text, from, to)
\* the words of a string: its longest stretches without a space
WordStarts(s) == {i \in 1..Len(s) : s[i] # Space /\ (i = 1 \/ s[i - 1] = Space)}
WordAt(s, i) ==
    LET end == CHOOSE j \in i..Len(s) :
                   /\ \A h \in i..j : s[h] # Space
                   /\ j = Len(s) \/ s[j + 1] = Space
    IN  SubSeq(s, i, end)
WordsOf(s) ==
    [k \in 1..Cardinality(WordStarts(s)) |-> WordAt(s, Nth(WordStarts(s), k))]
\* the words of the lines of a paragraph, in order
RECURSIVE WordsOfLines(_)
WordsOfLines(lines) ==
    IF lines = <<>> THEN <<>> ELSE WordsOf(Head(lines)) \o WordsOfLines(Tail(lines))
\* the width of a word, of the space between two words, and of a line
WordWidth(word) ==
    get_string_width(job.font, word, job.o.font_scale, job.o.char_spacing, 0)
Spacing == get_char_width(job.font, Space, job.o.font_scale) + job.o.word_spacing
RECURSIVE SumWidths(_)
SumWidths(words) ==
    IF words = <<>> THEN 0 ELSE WordWidth(Head(words)) + SumWidths(Tail(words))
LineWidth(line) ==
    SumWidths(WordsOf(line)) + (Cardinality(WordStarts(line)) - 1) * Spacing

(* C17: with a max width smaller than the width of every word, each        *)
(* paragraph comes back as its words in order, one word a line, and no     *)
(* other line.                                                             *)
C17_OneWordPerLine ==
    (/\ Wrapped
     /\ \A k \in 1..NumSegments :
            \A i \in WordStarts(Segment(k)) : WordWidth(WordAt(Segment(k), i)) > MaxWidth)
        => /\ Len(call.result) = NumSegments
           /\ \A k \in 1..NumSegments : call.result[k] = WordsOf(Segment(k))

(* C18: the result has one paragraph for each newline-delimited segment of *)
(* the text, in order, with the words of that segment and no other; a      *)
(* blank line gives a paragraph without lines.                             *)
C18_ParagraphPerSegment ==
    Wrapped =>
        /\ Len(call.result) = NumSegments
        /\ \A k \in 1..NumSegments :
            /\ WordsOfLines(call.result[k]) = WordsOf(Segment(k))
            /\ Segment(k) = <<>> => call.result[k] = <<>>

\* a text with a blank line between two words was wrapped
C18_Witness ==
    /\ Wrapped
    /\ job.text = <<"a", Newline, Newline, "a", "a">>
    /\ Len(call.result) = 3
    /\ call.result[2] = <<>>
    /\ call.result[3] = <<<<"a", "a">>>>

(* C19: a line of two or more words is at most max width wide, counting    *)
(* the words and between them the space glyph and the word spacing; and    *)
(* the first word of a line after another would not have fit on that one.  *)
C19_GreedyPacking ==
    Wrapped =>
        \A k \in 1..Len(call.result) :
            LET lines == call.result[k]
                Running(line) ==
                    IF WordStarts(line) = {} THEN 0 ELSE LineWidth(line) + Spacing
            IN  \A i \in 1..Len(lines) :
                    /\ Cardinality(WordStarts(lines[i])) >= 2
                        => LineWidth(lines[i]) <= MaxWidth
                    /\ i > 1 => Running(lines[i - 1])
                                + WordWidth(WordsOf(lines[i])[1]) > MaxWidth

\* two words share a line that is exactly max width wide, the third word
\* is on the next
C19_Witness ==
    /\ Wrapped
    /\ job.text = <<"a", Space, "a", Space, "a">>
    /\ MaxWidth = 3
    /\ call.result = <<<<(<<"a", Space, "a">>), (<<"a">>)>>>>

----------------------------------------------------------------------------
(* Multi-line layout *)

LaidOut == call.op = "layout_text_multiline" /\ call.err = "none"
\* what word_wrap gives for the job
WrappedJob ==
    word_wrap(job.font, job.text, MaxWidth, job.o.font_scale, job.o.char_spacing,
              job.o.word_spacing).paragraphs
\* the paragraph of each wrapped line, in order
RECURSIVE ParagraphOfLines(_, _)
ParagraphOfLines(paragraphs, k) ==
    IF k > Len(paragraphs) THEN <<>>
    ELSE [i \in 1..Len(paragraphs[k]) |-> k] \o ParagraphOfLines(paragraphs, k + 1)
\* the positions of the show-text operations in the stream
Shows == {i \in 1..Len(call.result) : call.result[i].op = "Tj"}
Advance ==
    (IF job.o.leading = NoLeading
        THEN (IF job.font.Leading = NoEntry THEN 0 ELSE job.font.Leading)
        ELSE job.o.leading)
    + job.o.font_scale

(* C20: for a text of N wrapped lines the stream has N show-text           *)
(* operations, one move between every two consecutive ones and none after  *)
(* the last; the move is (0, -(leading + font_size)) inside a paragraph    *)
(* and that times paragraph_spacing from one paragraph to another.         *)
C20_MovesBetweenShows ==
    LaidOut =>
        LET ops == call.result
            of == ParagraphOfLines(WrappedJob, 1)
        IN  /\ Cardinality(Shows) = Len(of)
            /\ Shows # {} => Nth(Shows, Len(of)) = Len(ops)
            /\ \A n \in 1..(Len(of) - 1) :
                LET i == Nth(Shows, n) IN
                /\ Nth(Shows, n + 1) = i + 2
                /\ ops[i + 1].op = "Td"
                /\ ops[i + 1].args =
                       IF of[n] = of[n + 1] THEN <<0, 0 - Advance>>
                       ELSE <<0, (0 - Advance) * job.o.paragraph_spacing>>

\* two lines of one paragraph and a line of the next, with a leading of 2
\* and double paragraph spacing
C20_Witness ==
    /\ LaidOut
    /\ job.text = <<"a", Space, "a", Newline, "a">>
    /\ job.o.paragraph_spacing = 2
    /\ Cardinality(Shows) = 3
    /\ call.result[Nth(Shows, 1) + 1].args = <<0, -3>>
    /\ call.result[Nth(Shows, 2) + 1].args = <<0, -6>>
    /\ call.result[Len(call.result)].op = "Tj"

\* the last call laid out the text of the job, on one line or on several
LaidOutAny ==
    call.op \in {"layout_text_line", "layout_text_multiline"} /\ call.err = "none"
\* where the moves before the i-th operation of a stream leave the cursor
RECURSIVE CursorBefore(_, _)
CursorBefore(ops, i) ==
    IF i <= 1 THEN <<0, 0>>
    ELSE LET at == CursorBefore(ops, i - 1)
         IN  IF ops[i - 1].op = "Td"
                THEN <<at[1] + ops[i - 1].args[1], at[2] + ops[i - 1].args[2]>>
                ELSE at
StartOfText ==
    <<job.rect[1] + pad_x(job.o.padding),
      job.rect[4] - pad_y(job.o.padding) - job.o.font_scale>>

(* C21: when a layout of one line or of several shows any text, the moves  *)
(* before the first show-text operation put the cursor at                  *)
(* (rect.left + pad_x, rect.top - pad_y - font_size).                      *)
C21_CursorAtStart ==
    (LaidOutAny /\ Shows # {})
        => CursorBefore(call.result, Nth(Shows, 1)) = StartOfText

----------------------------------------------------------------------------
(* ContentStream *)

\* the text of the stream when the operation of the last call is appended
\* as an Operation made by its Operator
AppendedText ==
    str_ContentStream(
        append(Streams[call.target],
               Operator_call(call.value.s[1], OperandsOf(call.value.s[1]))).ops)

(* C22: stream.operation(op, ...), stream.append(Operator(op)(...)) and    *)
(* the shortcut method of the operator give streams with the same text.    *)
C22_SameText ==
    call.op \in {"operation", "append", "shortcut"} => call.result = AppendedText

----------------------------------------------------------------------------
(* stamp *)

\* the images stamped on the pages
Stamped == UNION {Range(pages[p].stamps) : p \in 1..Len(pages)}
\* a fraction is this quotient of integers
Is(q, n, d) == q[1] * d = n * q[2]
SameRatio(st) == st.size[2] * Width(st.rect) = st.size[1] * Height(st.rect)

(* C23: an image with the aspect ratio of its rect that is not taller than *)
(* the rect has scale factor 1 and margins of half the difference of the   *)
(* widths and of the heights; one that is taller has scale factor          *)
(* rect.height / image.height and no margins.                              *)
C23_FitOfSameRatio ==
    \A st \in Stamped :
        SameRatio(st) =>
            IF st.size[2] <= Height(st.rect)
            THEN /\ st.scale_factor = <<1, 1>>
                 /\ Is(st.margin_x, Width(st.rect) - st.size[1], 2)
                 /\ Is(st.margin_y, Height(st.rect) - st.size[2], 2)
            ELSE /\ Is(st.scale_factor, Height(st.rect), st.size[2])
                 /\ st.margin_x[1] = 0
                 /\ st.margin_y[1] = 0

\* a smaller and a larger image of the ratio of their rect are on page 2:
\* one centred with margins 10 and 5, one at half its size
C23_Witness ==
    /\ call.op = "fill_form"
    /\ call.err = "none"
    /\ \E st \in Range(pages[2].stamps) :
        /\ SameRatio(st) /\ st.size = <<20, 10>>
        /\ st.margin_x = <<10, 1>> /\ st.margin_y = <<5, 1>>
    /\ \E st \in Range(pages[2].stamps) :
        /\ SameRatio(st) /\ st.size = <<80, 40>>
        /\ st.scale_factor = <<1, 2>>

(* C24: an image is placed at x = rect.left + margin_x and                 *)
(* y = rect.bottom + margin_y.                                             *)
C24_PlacedAtMargins ==
    \A st \in Stamped :
        /\ Is(st.x, st.rect[1] * st.margin_x[2] + st.margin_x[1], st.margin_x[2])
        /\ Is(st.y, st.rect[2] * st.margin_y[2] + st.margin_y[1], st.margin_y[2])

(* C25: fill_form with a data: URI for a signature field on a page stamps  *)
(* the image: the call ends without an error and with one stamp more on    *)
(* the page of the field.                                                  *)
C25_DataUriStamped ==
    (/\ call.op = "fill_form"
     /\ call.data = Data(<<"s">> :> DataUrl)
     /\ \E p \in 1..Len(prePages) : 4 \in Range(prePages[p].Annots))
        => /\ call.err = "none"
           /\ \E p \in 1..Len(pages) :
                Len(pages[p].stamps) = Len(prePages[p].stamps) + 1

----------------------------------------------------------------------------
(* iter_fields *)

Iterated == call.op = "iter_fields"
IsRadioButton(n) == input_type(nodes, n) = "radio" /\ nodes[n].Kids = <<>>
IsLeaf(n) ==
    /\ nodes[n].Subtype = "Widget"
    /\ nodes[n].Kids = <<>>
    /\ input_type(nodes, n) # "radio"
\* the groups that have a button in the list
GroupsOf(annots) == {nodes[b].Parent : b \in {a \in Range(annots) : IsRadioButton(a)}}
\* the widgets that are no radio buttons among these nodes and under them
RECURSIVE LeavesOf(_)
LeavesOf(annots) ==
    IF annots = <<>> THEN <<>>
    ELSE (IF IsLeaf(Head(annots)) THEN <<Head(annots)>>
          ELSE IF input_type(nodes, Head(annots)) # "radio"
              THEN LeavesOf(nodes[Head(annots)].Kids)
          ELSE <<>>)
         \o LeavesOf(Tail(annots))

(* C26: iter_fields yields every radio group that has a button in the list *)
(* exactly once, and the widgets that are no radio buttons as leaves, in   *)
(* their order, those of a node with Kids in its place.                    *)
C26_GroupsOnce ==
    Iterated =>
        LET annots == call.value.s
            yielded == call.result.s
        IN  /\ \A g \in GroupsOf(annots) :
                Cardinality({i \in 1..Len(yielded) : yielded[i] = g}) = 1
            /\ SelectSeq(yielded, IsLeaf) = LeavesOf(annots)

----------------------------------------------------------------------------
(* get_char_width *)

\* the first of the fallback widths the font has, else 0
Fallback(font) ==
    IF font.MissingWidth # NoEntry THEN font.MissingWidth
    ELSE IF font.AvgWidth # NoEntry THEN font.AvgWidth
    ELSE IF font.MaxWidth # NoEntry THEN font.MaxWidth
    ELSE 0

(* C27: get_char_width returns the entry of the width table at             *)
(* char_code - first_char when the table has that index, and the first     *)
(* fallback width the font has, else 0, for an index past the end of the   *)
(* table or below 0.                                                       *)
C27_TableOrFallback ==
    call.op = "get_char_width" =>
        LET font == CharFonts[call.target]
            index == Ord(call.value.s[1]) - font.FirstChar
        IN  /\ call.err = "none"
            /\ call.result.s[1] =
                   IF index >= 0 /\ index < Len(font.Widths)
                   THEN font.Widths[index + 1] ELSE Fallback(font)

----------------------------------------------------------------------------
(* Checkbox and radio group after several assignments *)

(* C28: after a successful assignment to a checkbox, the first or a later  *)
(* one, of True, False, None or a state name of its /N, its V is its AS.   *)
C28_ValueIsAppearance ==
    (AssignedCheckbox /\ call.err = "none") =>
        /\ nodes[call.target].V = nodes[call.target].AS
        /\ nodes[call.target].V.ty = "Name"

\* False was assigned after True: V and AS are Off
C28_Witness ==
    /\ AssignedCheckbox
    /\ call.err = "none"
    /\ tft.n = call.target /\ tft.k = 2
    /\ pre[call.target].V = NameObj(tft.on)
    /\ nodes[call.target].V = NameObj(Off)
    /\ nodes[call.target].AS = NameObj(Off)

\* the buttons of the group with an appearance selector other than Off
Selected == {k \in GroupKids : nodes[k].AS.ty = "Name" /\ nodes[k].AS.s # Off}
DisjointStates ==
    \A k, m \in GroupKids : k # m => OnStates(pre[k]) \cap OnStates(pre[m]) = {}

----------------------------------------------------------------------------
(* C30: when a text assignment raises, for want of a /DA at any level, for *)
(* a /DA without a font name and size, or for a font the AcroForm does not *)
(* have, the field's V is the new string already and its AP and /N are     *)
(* what they were, the old stream or none.                                 *)
C30_ValueWithoutAppearance ==
    (AssignedText /\ call.err # "none") =>
        /\ nodes[call.target].V = StringObj(call.value.s)
        /\ nodes[call.target].hasAP = pre[call.target].hasAP
        /\ nodes[call.target].N = pre[call.target].N
        /\ \A n \in DOMAIN nodes \ {call.target} : nodes[n] = pre[n]

\* a field with an old stream for "o" has the value "A" and the old stream
C30_Witness ==
    /\ AssignedText
    /\ call.err \in {"RuntimeError", "ValueError"}
    /\ call.value = Py("str", <<"A">>)
    /\ pre[call.target].V # StringObj(<<"A">>)
    /\ nodes[call.target].V = StringObj(<<"A">>)
    /\ nodes[call.target].N = OldStream
    /\ nodes[call.target].N.text # nodes[call.target].V.s

====
